---- MODULE Spec2Model ----
(***************************************************************************)
(* Model of the grade-prediction service (ai-service/app): the artifact    *)
(* store and cache of model_registry.py, the predict_grades endpoint of    *)
(* main.py and the helpers of utils.py.                                    *)
(*                                                                         *)
(* Floats are modelled as tagged integers: Num(n) is a finite float and    *)
(* NaNVal is float('nan'); every comparison with NaNVal is false, as in    *)
(* Python.  Dictionaries are TLA+ functions, lists are sequences, None is  *)
(* the record NoneVal.                                                     *)
(***************************************************************************)
EXTENDS Integers, Sequences, FiniteSets, TLC

VARIABLES
    disk,       \* MODEL_DIR: path -> content of the file (Absent when missing)
    has_cache,  \* hasattr(ensure_models_loaded, "_cache")
    cache,      \* ensure_models_loaded._cache: cache key -> bundle
    last,       \* the most recent call of the service: its inputs and outcome
    fsOps,      \* number of changes made to MODEL_DIR so far
    nextOid     \* identity given to the next bundle object that is created

vars == <<disk, has_cache, cache, last, fsOps, nextOid>>

-----------------------------------------------------------------------------
(* Bounds of the model.                                                    *)

\* longest list handed to clamp_grades
MaxPreds == 3
\* number of changes the environment makes to MODEL_DIR
MaxFsOps == 2
\* number of changes the environment makes to MODEL_DIR while requests are served
MaxPredictFsOps == 1
\* largest batch sent to predict_grades
MaxItems == 2
\* the longest batch handed to the feature builder alone
MaxBatch == 2
\* rows of a training dataset
MaxTrainRows == 3
\* calls of ensure_models_loaded started by the threads
MaxCalls == 3

-----------------------------------------------------------------------------
(* Scalars.                                                                *)

\* A JSON / pandas scalar: a number, a string, or a missing value (None, NaN, NaT)
Num(n) == [t |-> "num", n |-> n, s |-> ""]
Str(s) == [t |-> "str", n |-> 0, s |-> s]
NaNVal == [t |-> "nan", n |-> 0, s |-> ""]

\* a < b on Python floats: False whenever an operand is NaN
FloatLt(a, b) == a.t = "num" /\ b.t = "num" /\ a.n < b.n

\* the builtin min(a, b): b only if b < a, otherwise the first argument
PyMin(a, b) == IF FloatLt(b, a) THEN b ELSE a

\* the builtin max(a, b): b only if b > a, otherwise the first argument
PyMax(a, b) == IF FloatLt(a, b) THEN b ELSE a

-----------------------------------------------------------------------------
(* config.py                                                               *)

\* THRESHOLDS["min_grade"], default of MIN_GRADE
min_grade == 1
\* THRESHOLDS["max_grade"], default of MAX_GRADE
max_grade == 10
\* MODEL_VERSION, default
MODEL_VERSION == "v2.0.0"

-----------------------------------------------------------------------------
(* utils.py: clamp_grades                                                  *)

\* a clamp that forgets the ceiling
clamp_one_floor_only(pred) == PyMax(Num(min_grade), pred)

\* max(min_grade, min(max_grade, float(pred)))
clamp_one(pred) == PyMax(Num(min_grade), PyMin(Num(max_grade), pred))

clamp_grades(preds) == [i \in 1..Len(preds) |-> clamp_one(preds[i])]

-----------------------------------------------------------------------------
(* The artifact directory MODEL_DIR/{name}/{version}/ and what it holds.   *)

Names == {"grades"}
Versions == {"v2.0.0", "v9.9.9"}
\* a version argument; "" stands for the falsy values None and ""
VersionArgs == Versions \cup {""}

Path(name, version, file) == [name |-> name, version |-> version, file |-> file]

ArtifactFiles(name) ==
    { name \o "_model.joblib", name \o "_model.pkl",
      name \o "_scaler.joblib", name \o "_scaler.pkl",
      name \o "_encoders.joblib", name \o "_encoder.pkl" }
JsonFiles == {"feature_order.json", "meta.json", "metadata.json"}

Paths == { Path(n, v, f) : n \in Names, v \in Versions,
                           f \in UNION {ArtifactFiles(m) : m \in Names} \cup JsonFiles }

Absent == [k |-> "absent"]    \* no such file
Corrupt == [k |-> "corrupt"]  \* a file that joblib.load / json.load cannot read
NoneVal == [k |-> "none"]     \* Python's None

\* a pickled estimator: its class, the width it was fitted on, the training run
Model(cls, n, gen) == [k |-> "model", cls |-> cls, n_features_in |-> n, gen |-> gen]
\* a pickled StandardScaler: mean_ and scale_ per numeric column
Scaler(mean, scale, gen) == [k |-> "scaler", mean |-> mean, scale |-> scale, gen |-> gen]
\* a pickled dict of LabelEncoder: column -> classes_ (sorted)
Encoders(classes, gen) == [k |-> "encoders", classes |-> classes, gen |-> gen]
\* feature_order.json
FeatureOrder(num, cat, all) ==
    [k |-> "feature_order", numeric_features |-> num,
     categorical_features |-> cat, all_features |-> all]
\* meta.json / metadata.json: "version" and "metrics" are what the endpoint reads
Meta(version, gen) == [k |-> "meta", version |-> version, gen |-> gen]

exists(d, p) == d[p] # Absent

-----------------------------------------------------------------------------
(* model_registry.py: get_model_paths                                      *)

\* next((p for p in paths if p.exists()), paths[0]) with the legacy name first
first_existing_legacy_first(d, paths) ==
    IF exists(d, paths[2]) THEN paths[2]
    ELSE IF exists(d, paths[1]) THEN paths[1]
    ELSE paths[1]

\* next((p for p in paths if p.exists()), paths[0])
first_existing(d, paths) ==
    IF exists(d, paths[1]) THEN paths[1]
    ELSE IF exists(d, paths[2]) THEN paths[2]
    ELSE paths[1]

\* version or MODEL_VERSION
version_or_default(version) == IF version = "" THEN MODEL_VERSION ELSE version

model_paths(name, v) ==
    << Path(name, v, name \o "_model.joblib"), Path(name, v, name \o "_model.pkl") >>
scaler_paths(name, v) ==
    << Path(name, v, name \o "_scaler.joblib"), Path(name, v, name \o "_scaler.pkl") >>
encoder_paths(name, v) ==
    << Path(name, v, name \o "_encoders.joblib"), Path(name, v, name \o "_encoder.pkl") >>

get_model_paths(d, name, version) ==
    LET v == version_or_default(version) IN
    [ model |-> first_existing(d, model_paths(name, v)),
      scaler |-> first_existing(d, scaler_paths(name, v)),
      encoder |-> first_existing(d, encoder_paths(name, v)),
      feature_order |-> Path(name, v, "feature_order.json"),
      meta |-> Path(name, v, "meta.json"),
      metadata |-> Path(name, v, "metadata.json") ]

\* the files whose existence the generator asks for before it stops
probed_candidates(d, paths) ==
    IF exists(d, paths[1]) THEN {paths[1]} ELSE {paths[1], paths[2]}

get_model_paths_probes(d, name, version) ==
    LET v == version_or_default(version) IN
    probed_candidates(d, model_paths(name, v))
        \cup probed_candidates(d, scaler_paths(name, v))
        \cup probed_candidates(d, encoder_paths(name, v))

-----------------------------------------------------------------------------
(* model_registry.py: load_model, load_scaler, load_encoder                *)

\* the outcome of a call: exc = "" when it returns, the exception name when it raises
Return(value) == [exc |-> "", value |-> value]
Raise(exc) == [exc |-> exc, value |-> NoneVal]

\* joblib.load(path) of an existing file
joblib_load(d, path) ==
    IF d[path] = Corrupt THEN Raise("UnpicklingError") ELSE Return(d[path])

\* json.load(open(path)) of an existing file
json_load(d, path) ==
    IF d[path] = Corrupt THEN Raise("JSONDecodeError") ELSE Return(d[path])

load_model(d, name, version) ==
    LET model_path == get_model_paths(d, name, version).model IN
    IF ~exists(d, model_path) THEN Return(NoneVal)
    ELSE joblib_load(d, model_path)          \* an exception is re-raised

\* a load_scaler that lets the exception of joblib.load escape
load_scaler_raising(d, name, version) ==
    LET scaler_path == get_model_paths(d, name, version).scaler IN
    IF ~exists(d, scaler_path) THEN Raise("FileNotFoundError")
    ELSE joblib_load(d, scaler_path)

load_scaler(d, name, version) ==
    LET scaler_path == get_model_paths(d, name, version).scaler IN
    IF ~exists(d, scaler_path) THEN Return(NoneVal)
    ELSE LET r == joblib_load(d, scaler_path) IN
         IF r.exc # "" THEN Return(NoneVal) ELSE r

load_encoder(d, name, version) ==
    LET encoder_path == get_model_paths(d, name, version).encoder IN
    IF ~exists(d, encoder_path) THEN Return(NoneVal)
    ELSE LET r == joblib_load(d, encoder_path) IN
         IF r.exc # "" THEN Return(NoneVal) ELSE r

-----------------------------------------------------------------------------
(* model_registry.py: ensure_models_loaded and its cache                   *)

\* a key that leaves the version out
cache_key_without_version(name, version) == name

\* f"{name}:{version}"
cache_key(name, version) == name \o ":" \o version

EmptyCache == [key \in {} |-> NoneVal]

Bundle(model, scaler, encoders, feature_order, meta, oid) ==
    [model |-> model, scaler |-> scaler, encoders |-> encoders,
     feature_order |-> feature_order, meta |-> meta, oid |-> oid]
NoBundle == Bundle(NoneVal, NoneVal, NoneVal, NoneVal, NoneVal, 0)

\* a cache that holds nothing but the bundle loaded last
cache_put_replacing(c, key, result) == [k \in {key} |-> result]

\* ensure_models_loaded._cache[cache_key] = result
cache_put(c, key, result) ==
    [k \in DOMAIN c \cup {key} |-> IF k = key THEN result ELSE c[k]]

\* the metadata file that is read when the legacy metadata.json is preferred
meta_path_of_legacy_first(d, paths) ==
    IF exists(d, paths.metadata) THEN paths.metadata ELSE paths.meta

\* the metadata file that is read: meta.json, else the legacy metadata.json
meta_path_of(d, paths) ==
    IF exists(d, paths.meta) THEN paths.meta ELSE paths.metadata

\* the files a cache miss touches, up to the step at which it stops
load_probes(d, name, version, model, feature_order_found) ==
    LET paths == get_model_paths(d, name, version)
        probes == get_model_paths_probes(d, name, version) IN
    IF model.exc # "" \/ model.value = NoneVal THEN probes
    ELSE IF ~feature_order_found THEN probes \cup {paths.feature_order}
    ELSE probes \cup {paths.feature_order, paths.meta}
             \cup (IF exists(d, paths.meta) THEN {} ELSE {paths.metadata})

\* The outcome of ensure_models_loaded(name, version) in the state (d, c):
\* what it returns or raises, the cache afterwards, the files it touched and
\* whether the bundle came from the cache.
ensure_models_loaded(d, c, oid, name, version) ==
    LET v == version_or_default(version)
        key == cache_key(name, v)
        paths == get_model_paths(d, name, v)
        model == load_model(d, name, v)
        scaler == load_scaler(d, name, v)
        encoders == load_encoder(d, name, v)
        feature_order == json_load(d, paths.feature_order)
        meta_path == meta_path_of(d, paths)
        meta == json_load(d, meta_path)
        result == Bundle(model.value, scaler.value, encoders.value,
                         feature_order.value, meta.value, oid)
        Fail(exc, found) ==
            [exc |-> exc, bundle |-> NoBundle, cache |-> c, hit |-> FALSE,
             probed |-> load_probes(d, name, v, model, found)]
    IN
    IF key \in DOMAIN c
        THEN [exc |-> "", bundle |-> c[key], cache |-> c, hit |-> TRUE, probed |-> {}]
    ELSE IF model.exc # "" THEN Fail(model.exc, FALSE)
    ELSE IF model.value = NoneVal THEN Fail("FileNotFoundError", FALSE)
    ELSE IF scaler.exc # "" THEN Fail(scaler.exc, FALSE)
    ELSE IF ~exists(d, paths.feature_order) THEN Fail("FileNotFoundError", FALSE)
    ELSE IF feature_order.exc # "" THEN Fail(feature_order.exc, TRUE)
    ELSE IF ~exists(d, meta_path) THEN Fail("FileNotFoundError", TRUE)
    ELSE IF meta.exc # "" THEN Fail(meta.exc, TRUE)
    ELSE [exc |-> "", bundle |-> result, cache |-> cache_put(c, key, result),
          hit |-> FALSE, probed |-> load_probes(d, name, v, model, TRUE)]

-----------------------------------------------------------------------------
(* Lists, dicts and DataFrames.                                            *)

\* a local name for a value that is computed once: F(x)
Let(x, F(_)) == CHOOSE r \in {F(v) : v \in {x}} : TRUE

Range(seq) == {seq[i] : i \in DOMAIN seq}
Contains(seq, x) == \E i \in DOMAIN seq : seq[i] = x
IndexOf(seq, x) == CHOOSE i \in DOMAIN seq : seq[i] = x /\ \A j \in 1..(i - 1) : seq[j] # x

\* A dict is the list of its (key, value) pairs in insertion order.
DictKeys(dict) == [i \in DOMAIN dict |-> dict[i][1]]
DictHas(dict, key) == \E i \in DOMAIN dict : dict[i][1] = key
DictGet(dict, key) == dict[CHOOSE i \in DOMAIN dict : dict[i][1] = key][2]

\* the elements of more that are not in seq, appended in their order
RECURSIVE AppendNew(_, _)
AppendNew(seq, more) ==
    IF more = << >> THEN seq
    ELSE AppendNew(IF Contains(seq, Head(more)) THEN seq ELSE Append(seq, Head(more)),
                   Tail(more))

\* the columns of pd.DataFrame(list of dicts): the keys in order of first appearance
RECURSIVE UnionOfKeys(_)
UnionOfKeys(dicts) ==
    IF dicts = << >> THEN << >>
    ELSE AppendNew(DictKeys(Head(dicts)), UnionOfKeys(Tail(dicts)))

\* A DataFrame: the ordered column names and, per row, column -> scalar.
DataFrame(cols, rows) == [cols |-> cols, rows |-> rows]
HasCol(df, col) == Contains(df.cols, col)

\* df[col] = values   (values[i] is the new cell of row i)
SetCol(df, col, values) ==
    DataFrame(IF HasCol(df, col) THEN df.cols ELSE Append(df.cols, col),
              [i \in DOMAIN df.rows |->
                  [c \in DOMAIN df.rows[i] \cup {col} |->
                      IF c = col THEN values[i] ELSE df.rows[i][c]]])

Column(df, col) == [i \in DOMAIN df.rows |-> df.rows[i][col]]

\* df.drop(columns=drop)
DropCols(df, drop) ==
    DataFrame(SelectSeq(df.cols, LAMBDA c : c \notin drop),
              [i \in DOMAIN df.rows |->
                  [c \in DOMAIN df.rows[i] \ drop |-> df.rows[i][c]]])

isna(v) == v.t = "nan"

-----------------------------------------------------------------------------
(* Conversions of pandas / Python used by the feature builder.             *)

\* the decimal strings the model knows, DecimalStrings[n + 1] = str(n)
DecimalStrings == << "0", "1", "2", "3", "4", "5", "6", "7", "8", "9", "10" >>
\* str(float(n))
FloatStrings ==
    << "0.0", "1.0", "2.0", "3.0", "4.0", "5.0", "6.0", "7.0", "8.0", "9.0", "10.0" >>
\* day-first dates the model knows and their years
DateStrings == << "15/03/2000", "01/07/2004" >>
DateYears == << 2000, 2004 >>
\* datetime.now().year
RefYear == 2026

\* pd.to_numeric(v, errors="coerce") of one cell
to_numeric(v) ==
    IF v.t = "str"
        THEN IF Contains(DecimalStrings, v.s) THEN Num(IndexOf(DecimalStrings, v.s) - 1)
             ELSE IF Contains(FloatStrings, v.s) THEN Num(IndexOf(FloatStrings, v.s) - 1)
             ELSE NaNVal
        ELSE v

\* pd.to_datetime(v, dayfirst=True, errors="coerce").year of one cell:
\* a number counts nanoseconds from 1970, an unknown string is NaT
year_of(v) ==
    IF v.t = "str"
        THEN IF Contains(DateStrings, v.s) THEN Num(DateYears[IndexOf(DateStrings, v.s)])
             ELSE NaNVal
    ELSE IF v.t = "num" THEN Num(1970)
    ELSE NaNVal

\* a column of numbers with a missing cell is float64, and prints as floats
is_float_column(values) ==
    /\ \A i \in DOMAIN values : values[i].t # "str"
    /\ \E i \in DOMAIN values : values[i].t = "nan"

\* astype(str) of one non-null cell
as_str(v, float_column) ==
    IF v.t = "str" THEN v.s
    ELSE IF v.n \in 0..(Len(DecimalStrings) - 1)
        THEN IF float_column THEN FloatStrings[v.n + 1] ELSE DecimalStrings[v.n + 1]
    ELSE "?"

\* int(v) of one non-null cell succeeds
int_ok(v) == v.t = "num" \/ (v.t = "str" /\ Contains(DecimalStrings, v.s))
\* int(v)
as_int(v) == IF v.t = "str" THEN Num(IndexOf(DecimalStrings, v.s) - 1) ELSE v

fillna(v, fill) == IF isna(v) THEN fill ELSE v

-----------------------------------------------------------------------------
(* utils.py: prepare_features_list                                         *)

\* normalize_feature_types: None and NaN both become None; plain scalars are kept
normalize_value(v) == IF isna(v) THEN NaNVal ELSE v

normalize_feature_types(features) ==
    [i \in DOMAIN features |-> << features[i][1], normalize_value(features[i][2]) >>]

\* a DataFrame that keeps only the rows of the items that supply some field
prepare_features_list_dropping_empty(items) ==
    LET features_list == [i \in DOMAIN items |-> normalize_feature_types(items[i])]
        kept == SelectSeq(features_list, LAMBDA f : f # << >>)
        cols == UnionOfKeys(kept)
    IN DataFrame(cols,
           [i \in DOMAIN kept |->
               [c \in Range(cols) |->
                   IF DictHas(kept[i], c) THEN DictGet(kept[i], c) ELSE NaNVal]])

\* a DataFrame filled by position: the j-th column gets the item's j-th value
prepare_features_list_by_position(items) ==
    LET features_list == [i \in DOMAIN items |-> normalize_feature_types(items[i])]
        cols == UnionOfKeys(features_list)
    IN DataFrame(cols,
           [i \in DOMAIN features_list |->
               [c \in Range(cols) |->
                   IF IndexOf(cols, c) <= Len(features_list[i])
                       THEN features_list[i][IndexOf(cols, c)][2]
                   ELSE NaNVal]])

\* pd.DataFrame(features_list): one row per item, a missing key is NaN
prepare_features_list(items) ==
    LET features_list == [i \in DOMAIN items |-> normalize_feature_types(items[i])]
        cols == UnionOfKeys(features_list)
    IN DataFrame(cols,
           [i \in DOMAIN features_list |->
               [c \in Range(cols) |->
                   IF DictHas(features_list[i], c) THEN DictGet(features_list[i], c)
                   ELSE NaNVal]])

-----------------------------------------------------------------------------
(* utils.py: build_features_for_prediction, step by step                   *)

columns_to_drop ==
    { "id", "ID", "email", "nombre", "Email", "Nombre",
      "AnioAM2", "TutorAM2", "ProfesorAM2", "VecesRecursadaAM2",
      "AsistenciaAM2", "PeriodoAM2", "ModalidadAM2", "TipoMateriaAM2",
      "Parcial1AM2", "Parcial2AM2", "Recuperatorio1AM2", "Recuperatorio2AM2",
      "Final1AM2", "Final2AM2", "Final3AM2", "ApruebaAM2",
      "Carrera", "ApruebaAM1", "Abandona",
      "NotaFinalAM1", "Final1AM1", "Final2AM1", "Final3AM1" }

numeric_cols ==
    << "edad", "Parcial1AM1", "Parcial2AM1", "Recuperatorio1AM1", "Recuperatorio2AM1",
       "AsistenciaAM1", "VecesRecursadaAM1", "PromedioNotasColegio", "AniosUniversidad" >>

categorical_cols == << "Genero", "ProfesorAM1", "ColegioTecnico", "AyudaFinanciera" >>

\* edad = ref_year - birth year, when edad is not supplied and FechaNacimiento is
derive_edad(df) ==
    IF ~HasCol(df, "edad") /\ HasCol(df, "FechaNacimiento")
        THEN SetCol(df, "edad",
                 [i \in DOMAIN df.rows |->
                     LET y == year_of(df.rows[i]["FechaNacimiento"]) IN
                     IF isna(y) THEN NaNVal ELSE Num(RefYear - y.n)])
        ELSE df

\* a deny list without the target columns, as training uses it
drop_columns_keeping_targets(df) ==
    DropCols(df, columns_to_drop \ {"NotaFinalAM1", "Final1AM1", "Final2AM1", "Final3AM1"})

drop_columns(df) == DropCols(df, columns_to_drop)

\* a retake score that is missing takes the partial score of the same row
impute_retake(df, recup, parcial) ==
    IF HasCol(df, recup) /\ HasCol(df, parcial)
        THEN SetCol(df, recup,
                 [i \in DOMAIN df.rows |->
                     IF isna(to_numeric(df.rows[i][recup]))
                            /\ ~isna(to_numeric(df.rows[i][parcial]))
                         THEN df.rows[i][parcial]
                         ELSE df.rows[i][recup]])
        ELSE df

\* df[col] = pd.to_numeric(df[col], errors="coerce") for the columns of cols in df
RECURSIVE coerce_numeric(_, _)
coerce_numeric(df, cols) ==
    IF cols = << >> THEN df
    ELSE coerce_numeric(
             IF HasCol(df, Head(cols))
                 THEN SetCol(df, Head(cols),
                          [i \in DOMAIN df.rows |-> to_numeric(df.rows[i][Head(cols)])])
                 ELSE df,
             Tail(cols))

\* the numeric step without its fillna(0): the frame is left as it is
fill_numeric_keeping_nan(df, cols) == df

\* for the columns of cols in df: pd.to_numeric(..., errors="coerce").fillna(0)
RECURSIVE fill_numeric(_, _)
fill_numeric(df, cols) ==
    IF cols = << >> THEN df
    ELSE fill_numeric(
             IF HasCol(df, Head(cols))
                 THEN SetCol(df, Head(cols),
                          [i \in DOMAIN df.rows |->
                              fillna(to_numeric(df.rows[i][Head(cols)]), Num(0))])
                 ELSE df,
             Tail(cols))

\* `if encoders:` -- a dict that is neither None nor empty
encoders_truthy(encoders) == encoders # NoneVal /\ DOMAIN encoders.classes # {}

\* an encoding that gives an unseen value the first code
encode_value_unseen_as_first(encoder, val) ==
    IF Contains(encoder.classes_, val) THEN Num(IndexOf(encoder.classes_, val) - 1)
    ELSE Num(0)

\* the code of one non-null cell: its position in classes_, -1 when unseen
encode_value(encoder, val) ==
    IF Contains(encoder.classes_, val) THEN Num(IndexOf(encoder.classes_, val) - 1)
    ELSE Num(-1)

\* the cells of one categorical column after the encoding loop, before astype(int)
encoded_column(values, col, encoders) ==
    LET float_column == is_float_column(values)
        some_non_null == \E i \in DOMAIN values : ~isna(values[i])
    IN
    IF some_non_null /\ col \in DOMAIN encoders.classes
        THEN IF encoders.classes[col].fitted
                 THEN [i \in DOMAIN values |->
                          IF isna(values[i]) THEN values[i]
                          ELSE encode_value(encoders.classes[col],
                                            as_str(values[i], float_column))]
                 \* an unfitted LabelEncoder has no classes_: the except branch
                 ELSE [i \in DOMAIN values |->
                          IF isna(values[i]) THEN values[i] ELSE Num(-1)]
        ELSE values

\* The categorical step over the columns cols: the frame, or the ValueError of
\* astype(int) on a cell that is no integer.
RECURSIVE encode_categoricals(_, _, _)
encode_categoricals(df, cols, encoders) ==
    IF cols = << >> THEN [exc |-> "", df |-> df]
    ELSE IF ~HasCol(df, Head(cols)) THEN encode_categoricals(df, Tail(cols), encoders)
    ELSE
        LET col == Head(cols)
            values == Column(df, col)
            filled ==
                IF encoders_truthy(encoders)
                    THEN [i \in DOMAIN values |->
                             fillna(encoded_column(values, col, encoders)[i], Num(-1))]
                    ELSE [i \in DOMAIN values |-> fillna(to_numeric(values[i]), Num(-1))]
        IN
        IF \E i \in DOMAIN filled : ~int_ok(filled[i])
            THEN [exc |-> "ValueError", df |-> df]
            ELSE encode_categoricals(
                     SetCol(df, col, [i \in DOMAIN filled |-> as_int(filled[i])]),
                     Tail(cols), encoders)

\* the list sorted in increasing order
RECURSIVE SortedInts(_)
SortedInts(xs) ==
    IF xs = << >> THEN << >>
    ELSE LET m == CHOOSE i \in DOMAIN xs : \A j \in DOMAIN xs : xs[i] <= xs[j]
             rest == [k \in 1..(Len(xs) - 1) |-> IF k < m THEN xs[k] ELSE xs[k + 1]]
         IN << xs[m] >> \o SortedInts(rest)

\* Series.median() of the non-null years (their sums are even in this model)
median_year(years) ==
    LET known == SelectSeq(years, LAMBDA y : ~isna(y))
        sorted == SortedInts([i \in DOMAIN known |-> known[i].n])
        n == Len(sorted)
    IN IF n % 2 = 1 THEN sorted[(n + 1) \div 2]
       ELSE (sorted[n \div 2] + sorted[n \div 2 + 1]) \div 2

\* FechaNacimiento_numeric, when the manifest lists it
derive_fecha_numeric(df, all_features) ==
    IF ~Contains(all_features, "FechaNacimiento_numeric") THEN df
    ELSE IF HasCol(df, "FechaNacimiento")
        THEN LET years == [i \in DOMAIN df.rows |-> year_of(df.rows[i]["FechaNacimiento"])]
                 fill == IF \E i \in DOMAIN years : ~isna(years[i])
                             THEN Num(median_year(years)) ELSE Num(RefYear)
             IN SetCol(df, "FechaNacimiento_numeric",
                       [i \in DOMAIN years |-> fillna(years[i], fill)])
    ELSE IF ~HasCol(df, "FechaNacimiento_numeric")
        THEN SetCol(df, "FechaNacimiento_numeric", [i \in DOMAIN df.rows |-> Num(RefYear)])
    ELSE df

\* every feature of the manifest gets a column: 0.0, or -1 for a categorical one
RECURSIVE ensure_features(_, _, _, _)
ensure_features(df, feats, numeric_features, categorical_features) ==
    IF feats = << >> THEN df
    ELSE LET feat == Head(feats)
             default == IF Contains(numeric_features, feat) THEN Num(0)
                        ELSE IF Contains(categorical_features, feat) THEN Num(-1)
                        ELSE Num(0)
         IN ensure_features(
                IF HasCol(df, feat) THEN df
                ELSE SetCol(df, feat, [i \in DOMAIN df.rows |-> default]),
                Tail(feats), numeric_features, categorical_features)

\* scaler.transform of one row of the numeric block: (x - mean_) / scale_
scale_row(scaler, row) ==
    [j \in DOMAIN row |-> Num((row[j].n - scaler.mean[j]) \div scaler.scale[j])]

\* a manifest read with feature_order.get(key, [])
SubsetOfCols(feats, all_features) == \A i \in DOMAIN feats : Contains(all_features, feats[i])

\* a selection that keeps the first of the requested columns only
block_row_first_only(row, feats) == [j \in DOMAIN feats \cap {1} |-> row[feats[j]]]

\* a selection that returns the requested columns in reverse order
block_row_reversed(row, feats) == [j \in DOMAIN feats |-> row[feats[Len(feats) + 1 - j]]]

\* X[feats].values of one row
block_row(row, feats) == [j \in DOMAIN feats |-> row[feats[j]]]

NoMatrix == << >>
Built(X) == [exc |-> "", X |-> X]
BuildError(exc) == [exc |-> exc, X |-> NoMatrix]

\* The outcome of build_features_for_prediction(items, encoders, feature_order,
\* scaler): the matrix (one list of cells per row) or the exception raised.
build_features_for_prediction(items, encoders, feature_order, scaler) ==
    LET numeric_features == feature_order.numeric_features
        categorical_features == feature_order.categorical_features
        all_features == feature_order.all_features
        scaling == scaler # NoneVal /\ Len(numeric_features) > 0
        \* lines 158-213: the frame before the categorical step
        parsed ==
            coerce_numeric(
                impute_retake(
                    impute_retake(drop_columns(derive_edad(prepare_features_list(items))),
                                  "Recuperatorio1AM1", "Parcial1AM1"),
                    "Recuperatorio2AM1", "Parcial2AM1"),
                numeric_cols)
        \* lines 250-284: the frame after the categorical step
        completed(df) ==
            ensure_features(derive_fecha_numeric(fill_numeric(df, numeric_features),
                                                 all_features),
                            all_features, numeric_features, categorical_features)
        \* lines 286-309: selection, scaling, stacking
        stacked(df) ==
            LET X_numeric(i) == block_row(df.rows[i], numeric_features)
                X_categorical(i) == block_row(df.rows[i], categorical_features)
                X_numeric_scaled(i) ==
                    IF scaling THEN scale_row(scaler, X_numeric(i)) ELSE X_numeric(i)
            IN
            IF Len(numeric_features) > 0 /\ Len(categorical_features) > 0
                THEN Built([i \in DOMAIN df.rows |-> X_numeric_scaled(i) \o X_categorical(i)])
            ELSE IF Len(numeric_features) > 0
                THEN Built([i \in DOMAIN df.rows |-> X_numeric_scaled(i)])
            ELSE IF Len(categorical_features) > 0
                THEN Built([i \in DOMAIN df.rows |-> X_categorical(i)])
            ELSE BuildError("ValueError")
        after_encoding(enc) ==
            IF enc.exc # "" THEN BuildError(enc.exc)
            \* X[numeric_features] / X[categorical_features] of a name that X lacks
            ELSE IF ~SubsetOfCols(numeric_features, all_features) THEN BuildError("KeyError")
            ELSE IF ~SubsetOfCols(categorical_features, all_features)
                THEN BuildError("KeyError")
            \* StandardScaler.transform of a block of another width
            ELSE IF scaling /\ Len(scaler.mean) # Len(numeric_features)
                THEN BuildError("ValueError")
            ELSE Let(completed(enc.df), stacked)
    IN
    Let(encode_categoricals(parsed, categorical_cols, encoders), after_encoding)

-----------------------------------------------------------------------------
(* The trained estimator (scikit-learn), seen through predict().           *)

RECURSIVE SumCells(_)
SumCells(row) == IF row = << >> THEN 0 ELSE Head(row).n + SumCells(Tail(row))

\* The regressor is opaque: any function of the row will do.  This one
\* spreads its outputs around the grade interval.
predict_row(model, row) == Num(SumCells(row) + 4 * model.gen)

\* The outcome of model.predict(X)
model_predict(model, X) ==
    \* the unpickled object is no estimator: it has no predict
    IF model.cls # "RandomForestRegressor" THEN [exc |-> "AttributeError", preds |-> << >>]
    \* check_array: a cell that is no finite number, or another width than fitted
    ELSE IF \E i \in DOMAIN X : \E j \in DOMAIN X[i] : X[i][j].t # "num"
        THEN [exc |-> "ValueError", preds |-> << >>]
    ELSE IF \E i \in DOMAIN X : Len(X[i]) # model.n_features_in
        THEN [exc |-> "ValueError", preds |-> << >>]
    ELSE [exc |-> "", preds |-> [i \in DOMAIN X |-> predict_row(model, X[i])]]

-----------------------------------------------------------------------------
(* main.py: predict_grades                                                 *)

\* a handler whose first clause catches json.JSONDecodeError only
is_ValueError_json_only(exc) == exc = "JSONDecodeError"

\* `except ValueError`: the class and its subclasses
is_ValueError(exc) == exc \in {"ValueError", "JSONDecodeError"}

\* except ValueError -> 400, except Exception -> 500
status_of_prediction_error(exc) == IF is_ValueError(exc) THEN 400 ELSE 500

\* a handler that answers 404 when a file is missing
status_of_load_error_404(exc) == IF exc = "FileNotFoundError" THEN 404 ELSE 503

\* except FileNotFoundError -> 503, except Exception -> 503
status_of_load_error(exc) == 503

\* What a request did: the HTTP status, the stage that failed ("" when none did)
\* and its exception, the predictions, the matrix that was built, what the
\* registry returned and touched, and which collaborators were invoked.
Response(status, stage, exc, preds, X, e, ensure_called, builder_called, model_called) ==
    [status |-> status, stage |-> stage, exc |-> exc, preds |-> preds, X |-> X,
     bundle |-> e.bundle, cache |-> e.cache, hit |-> e.hit, probed |-> e.probed,
     ensure_called |-> ensure_called, builder_called |-> builder_called,
     model_called |-> model_called]

\* the registry when it is not called
NotLoaded(c) ==
    [exc |-> "", bundle |-> NoBundle, cache |-> c, hit |-> FALSE, probed |-> {}]

\* a scaler refitted on the block it is given: fit_transform in place of transform
scaler_after_fit_transform(scaler, X) ==
    [scaler EXCEPT !.mean = [j \in DOMAIN scaler.mean |-> X[1][j].n]]

\* the StandardScaler after scaler.transform(X_numeric): transform reads mean_
\* and scale_ and assigns nothing
scaler_after_transform(scaler, X) == scaler

\* The registry's answer e after the builder has run on its objects.  The
\* bundle the handler holds is the dict the cache stores, so what a call does
\* to the scaler shows in the cache entry too.  The builder only reads the
\* encoders (classes_, transform) and the manifest (get).
after_builder(e, b) ==
    IF b.exc = "" /\ e.bundle.scaler # NoneVal
           /\ Len(e.bundle.feature_order.numeric_features) > 0
        THEN Let(scaler_after_transform(e.bundle.scaler, b.X),
                 LAMBDA s :
                     [e EXCEPT !.bundle.scaler = s,
                               !.cache = cache_put(e.cache, cache_key("grades", MODEL_VERSION),
                                                   [e.bundle EXCEPT !.scaler = s])])
    ELSE e

\* the second try block, with the bundle e that the registry returned
predict_with(e, items) ==
    LET predicted(b) ==
            Let(model_predict(e.bundle.model, b.X),
                LAMBDA m :
                    IF m.exc # ""
                        THEN Response(status_of_prediction_error(m.exc), "predict", m.exc,
                                      << >>, b.X, after_builder(e, b), TRUE, TRUE, TRUE)
                    ELSE Response(200, "", "", clamp_grades(m.preds), b.X,
                                  after_builder(e, b), TRUE, TRUE, TRUE))
        built(b) ==
            IF b.exc # ""
                THEN Response(status_of_prediction_error(b.exc), "build", b.exc, << >>,
                              NoMatrix, e, TRUE, TRUE, FALSE)
            ELSE predicted(b)
    IN
    Let(build_features_for_prediction(items, e.bundle.encoders, e.bundle.feature_order,
                                      e.bundle.scaler),
        built)

\* a handler that loads the artifacts before it looks at the batch
predict_grades_load_first(d, c, oid, items) ==
    Let(ensure_models_loaded(d, c, oid, "grades", MODEL_VERSION),
        LAMBDA e :
            IF e.exc # ""
                THEN Response(status_of_load_error(e.exc), "load", e.exc, << >>, NoMatrix,
                              e, TRUE, FALSE, FALSE)
            ELSE IF items = << >>
                THEN Response(400, "empty", "", << >>, NoMatrix, e, TRUE, FALSE, FALSE)
            ELSE predict_with(e, items))

\* The outcome of POST /predict/grades with request.items = items in the state
\* (d, c).  Each item is the features dict of one ItemFeatures.
predict_grades(d, c, oid, items) ==
    \* if not request.items: 400
    IF items = << >>
        THEN Response(400, "empty", "", << >>, NoMatrix, NotLoaded(c),
                      FALSE, FALSE, FALSE)
    ELSE
        \* first try block: ensure_models_loaded
        Let(ensure_models_loaded(d, c, oid, "grades", MODEL_VERSION),
            LAMBDA e :
                IF e.exc # ""
                    THEN Response(status_of_load_error(e.exc), "load", e.exc, << >>,
                                  NoMatrix, e, TRUE, FALSE, FALSE)
                \* second try block: build, model.predict, clamp_grades
                ELSE predict_with(e, items))

-----------------------------------------------------------------------------
(* train_grades.py: the artifacts a training run writes.                   *)

\* The training runs of the model: run 1 has a dataset with the columns
\* Parcial1AM1, Recuperatorio1AM1 and Genero, run 2 one without Recuperatorio1AM1.
Datasets == {1, 2}

\* numeric_features / categorical_features in the order of select_feature_columns
TrainedNumeric(run) ==
    IF run = 1 THEN << "Parcial1AM1", "Recuperatorio1AM1" >> ELSE << "Parcial1AM1" >>
TrainedCategorical(run) == << "Genero" >>

\* classes_ of the LabelEncoder fitted on the Genero column of the dataset
TrainedClasses(run) == IF run = 1 THEN << "F", "M" >> ELSE << "F", "M", "X" >>

\* what the run dumps into the file of this kind
TrainedContent(kind, version, run) ==
    CASE kind = "model" ->
            Model("RandomForestRegressor",
                  Len(TrainedNumeric(run)) + Len(TrainedCategorical(run)), run)
      [] kind = "scaler" ->
            Scaler([j \in DOMAIN TrainedNumeric(run) |-> 5],
                   [j \in DOMAIN TrainedNumeric(run) |-> 1], run)
      [] kind = "encoder" ->
            Encoders([c \in {"Genero"} |->
                         [fitted |-> TRUE, classes_ |-> TrainedClasses(run)]], run)
      [] kind = "feature_order" ->
            FeatureOrder(TrainedNumeric(run), TrainedCategorical(run),
                         TrainedNumeric(run) \o TrainedCategorical(run))
      [] kind = "meta" -> Meta(version, run)

\* the kind of artifact a file of the directory holds
KindOf(p) ==
    CASE p.file \in {p.name \o "_model.joblib", p.name \o "_model.pkl"} -> "model"
      [] p.file \in {p.name \o "_scaler.joblib", p.name \o "_scaler.pkl"} -> "scaler"
      [] p.file \in {p.name \o "_encoders.joblib", p.name \o "_encoder.pkl"} -> "encoder"
      [] p.file = "feature_order.json" -> "feature_order"
      [] p.file \in {"meta.json", "metadata.json"} -> "meta"

\* the files main() of train_grades.py writes under grades/{version}/
TrainedFiles ==
    { "grades_model.joblib", "grades_scaler.joblib", "grades_encoders.joblib",
      "feature_order.json", "meta.json" }

\* an object that is no estimator, pickled where the model is expected
NotEstimator == Model("dict", 0, 0)

\* what the environment may put into a file
ContentsFor(p) ==
    {Corrupt} \cup {TrainedContent(KindOf(p), p.version, run) : run \in Datasets}
        \cup (IF KindOf(p) = "model" THEN {NotEstimator} ELSE {})

-----------------------------------------------------------------------------
(* Inputs of the calls.                                                    *)

PredValues == {Num(-2), Num(1), Num(5), Num(10), Num(13), NaNVal}
PredLists == UNION {[1..n -> PredValues] : n \in 0..MaxPreds}

\* the features dicts of the requests
ItemPool ==
    { << <<"Parcial1AM1", Num(7)>>, <<"Genero", Str("M")>> >>,
      << <<"Genero", Str("F")>>, <<"Parcial1AM1", Num(3)>>,
         <<"Recuperatorio1AM1", Num(9)>> >>,
      << >>,
      << <<"Recuperatorio1AM1", NaNVal>>, <<"Parcial1AM1", Str("10")>>,
         <<"Genero", Str("Z")>>, <<"id", Num(4)>> >> }
ItemLists == UNION {[1..n -> ItemPool] : n \in 0..MaxItems}

-----------------------------------------------------------------------------
(* The state machine.                                                      *)

NoCall == [op |-> "none"]

\* MODEL_DIR as a training run for the production version left it
DeployedDisk ==
    [p \in Paths |->
        IF p.name = "grades" /\ p.version = MODEL_VERSION /\ p.file \in TrainedFiles
            THEN TrainedContent(KindOf(p), MODEL_VERSION, 1)
            ELSE Absent]

\* The service starts with MODEL_DIR just created by config.py, or with the
\* production model already trained; the cache attribute does not exist yet.
Init ==
    /\ disk \in {[p \in Paths |-> Absent], DeployedDisk}
    /\ has_cache = FALSE
    /\ cache = EmptyCache
    /\ last = NoCall
    /\ fsOps = 0
    /\ nextOid = 1

\* python -m app.train_grades --version {version}: all five artifacts are written
Train(version, run, limit) ==
    /\ fsOps < limit
    /\ disk' = [p \in Paths |->
                   IF p.name = "grades" /\ p.version = version /\ p.file \in TrainedFiles
                       THEN TrainedContent(KindOf(p), version, run)
                       ELSE disk[p]]
    /\ fsOps' = fsOps + 1
    /\ last' = NoCall
    /\ UNCHANGED <<has_cache, cache, nextOid>>

\* the environment writes, overwrites or damages one file of MODEL_DIR
WriteFile(p, content, limit) ==
    /\ fsOps < limit
    /\ disk[p] # content
    /\ disk' = [disk EXCEPT ![p] = content]
    /\ fsOps' = fsOps + 1
    /\ last' = NoCall
    /\ UNCHANGED <<has_cache, cache, nextOid>>

\* the environment deletes one file of MODEL_DIR
RemoveFile(p, limit) ==
    /\ fsOps < limit
    /\ exists(disk, p)
    /\ disk' = [disk EXCEPT ![p] = Absent]
    /\ fsOps' = fsOps + 1
    /\ last' = NoCall
    /\ UNCHANGED <<has_cache, cache, nextOid>>

\* a call of get_model_paths(name, version)
GetModelPaths(name, version) ==
    /\ last = NoCall
    /\ last' = [op |-> "get_model_paths", name |-> name, version |-> version,
                paths |-> get_model_paths(disk, name, version)]
    /\ UNCHANGED <<disk, has_cache, cache, fsOps, nextOid>>

\* a call of ensure_models_loaded(name, version)
EnsureModelsLoaded(name, version) ==
    /\ last = NoCall
    /\ \E e \in {ensure_models_loaded(disk, cache, nextOid, name, version)} :
           /\ has_cache' = TRUE
           /\ cache' = e.cache
           /\ nextOid' = IF e.exc = "" /\ ~e.hit THEN nextOid + 1 ELSE nextOid
           /\ last' = [op |-> "ensure_models_loaded", name |-> name, version |-> version,
                       key |-> cache_key(name, version_or_default(version)),
                       exc |-> e.exc, bundle |-> e.bundle, hit |-> e.hit, probed |-> e.probed,
                       cache_before |-> cache, has_cache_before |-> has_cache]
           /\ UNCHANGED <<disk, fsOps>>

\* a request POST /predict/grades
PredictGrades(items) ==
    /\ last = NoCall
    /\ \E r \in {predict_grades(disk, cache, nextOid, items)} :
           /\ has_cache' = (has_cache \/ r.ensure_called)
           /\ cache' = r.cache
           /\ nextOid' = IF r.bundle # NoBundle /\ ~r.hit THEN nextOid + 1 ELSE nextOid
           /\ last' = [op |-> "predict_grades", items |-> items, status |-> r.status,
                       stage |-> r.stage, exc |-> r.exc, preds |-> r.preds, X |-> r.X,
                       bundle |-> r.bundle, hit |-> r.hit, probed |-> r.probed,
                       ensure_called |-> r.ensure_called, builder_called |-> r.builder_called,
                       model_called |-> r.model_called,
                       cache_before |-> cache, has_cache_before |-> has_cache]
           /\ UNCHANGED <<disk, fsOps>>

\* a call of clamp_grades(preds)
ClampGrades(preds) ==
    /\ last = NoCall
    /\ last' = [op |-> "clamp_grades", preds |-> preds, out |-> clamp_grades(preds)]
    /\ UNCHANGED <<disk, has_cache, cache, fsOps, nextOid>>

\* the caller has the outcome of its call; the next call can be made
Respond ==
    /\ last # NoCall
    /\ last' = NoCall
    /\ UNCHANGED <<disk, has_cache, cache, fsOps, nextOid>>

\* the files the environment edits one by one: those of the production version
\* (other versions are deployed whole, by a training run)
EditablePaths == {p \in Paths : p.version = MODEL_VERSION}

\* The artifact store and its cache, with MODEL_DIR changing under them.
Next ==
    \/ \E v \in Versions, run \in Datasets : Train(v, run, MaxFsOps)
    \/ \E p \in EditablePaths : \E content \in ContentsFor(p) :
           WriteFile(p, content, MaxFsOps)
    \/ \E p \in EditablePaths : RemoveFile(p, MaxFsOps)
    \/ \E n \in Names, v \in VersionArgs : EnsureModelsLoaded(n, v)
    \/ Respond

Spec == Init /\ [][Next]_vars

\* The endpoint, with the directory of the production version changing under it.
NextPredict ==
    \/ \E run \in Datasets : Train(MODEL_VERSION, run, MaxPredictFsOps)
    \/ \E p \in EditablePaths : \E content \in ContentsFor(p) :
           WriteFile(p, content, MaxPredictFsOps)
    \/ \E p \in EditablePaths : RemoveFile(p, MaxPredictFsOps)
    \/ \E items \in ItemLists : PredictGrades(items)
    \/ Respond

SpecPredict == Init /\ [][NextPredict]_vars

\* get_model_paths on every pattern of artifact files of the two conventions
ArtifactPaths == {p \in Paths : KindOf(p) \in {"model", "scaler", "encoder"}}

InitPaths ==
    /\ \E present \in SUBSET ArtifactPaths :
           disk = [p \in Paths |->
                      IF p \in present THEN TrainedContent(KindOf(p), p.version, 1)
                      ELSE Absent]
    /\ has_cache = FALSE
    /\ cache = EmptyCache
    /\ last = NoCall
    /\ fsOps = 0
    /\ nextOid = 1

NextPaths ==
    \/ \E n \in Names, v \in VersionArgs : GetModelPaths(n, v)
    \/ Respond

SpecPaths == InitPaths /\ [][NextPaths]_vars

\* clamp_grades on every list of predictions
NextClamp ==
    \/ \E preds \in PredLists : ClampGrades(preds)
    \/ Respond

SpecClamp == Init /\ [][NextClamp]_vars

-----------------------------------------------------------------------------
(* The feature builder on its own (SpecBuild).                             *)

\* the features dicts handed to build_features_for_prediction
BuildItemPool ==
    { << <<"Parcial1AM1", Num(7)>> >>,
      << <<"Recuperatorio1AM1", Num(9)>>, <<"Parcial1AM1", Num(3)>>,
         <<"Genero", Str("F")>> >>,
      << <<"Genero", Str("M")>>, <<"ColegioTecnico", Num(1)>> >>,
      << <<"A", Num(7)>>, <<"B", Num(3)>>, <<"C", Str("x")>> >>,
      << >>,
      << <<"Genero", Str("Z")>>, <<"Parcial1AM1", Str("10")>>,
         <<"Recuperatorio1AM1", NaNVal>>, <<"id", Num(4)>> >>,
      << <<"FechaNacimiento", Str("15/03/2000")>>, <<"Parcial2AM1", Num(6)>>,
         <<"Recuperatorio2AM1", Str("ausente")>> >> }
BuildItemLists == UNION {[1..n -> BuildItemPool] : n \in 1..MaxBatch}

\* a fitted LabelEncoder with these classes_
Fitted(classes) == [fitted |-> TRUE, classes_ |-> classes]

\* the encoder tables a bundle can hold: none, an empty dict, a table for the
\* columns of the dataset, a table of a dataset that had no Genero column
EncoderTables ==
    { NoneVal,
      Encoders([c \in {} |-> Fitted(<< >>)], 0),
      Encoders([c \in {"Genero", "ColegioTecnico", "C"} |->
                   CASE c = "Genero" -> Fitted(<< "F", "M" >>)
                     [] c = "ColegioTecnico" -> Fitted(<< "0", "1" >>)
                     [] c = "C" -> Fitted(<< "x", "y" >>)], 1),
      Encoders([c \in {"ColegioTecnico"} |-> Fitted(<< "0", "1" >>)], 2) }

\* the manifests a bundle can hold: that of training run 1, the A/B/C manifest,
\* one whose all_features ends with FechaNacimiento_numeric after the
\* categorical names (train_grades.py:350), one that lists a name which is
\* neither numeric nor categorical
Manifests ==
    { FeatureOrder(TrainedNumeric(1), TrainedCategorical(1),
                   TrainedNumeric(1) \o TrainedCategorical(1)),
      FeatureOrder(<< "A", "B" >>, << "C" >>, << "A", "B", "C" >>),
      FeatureOrder(<< "Parcial1AM1", "FechaNacimiento_numeric" >>,
                   << "Genero", "ColegioTecnico" >>,
                   << "Parcial1AM1", "Genero", "ColegioTecnico",
                      "FechaNacimiento_numeric" >>),
      FeatureOrder(<< "Parcial2AM1", "Recuperatorio2AM1" >>, << "ColegioTecnico" >>,
                   << "Parcial2AM1", "Recuperatorio2AM1", "ColegioTecnico",
                      "Observaciones" >>) }

\* no scaler, or the StandardScaler fitted on the numeric block of the manifest
ScalersFor(feature_order) ==
    { NoneVal,
      Scaler([j \in DOMAIN feature_order.numeric_features |-> 5],
             [j \in DOMAIN feature_order.numeric_features |-> 1], 1) }

\* a call of build_features_for_prediction(items, encoders, feature_order, scaler)
BuildFeatures(items, encoders, feature_order, scaler) ==
    /\ last = NoCall
    /\ \E b \in {build_features_for_prediction(items, encoders, feature_order, scaler)} :
           last' = [op |-> "build_features_for_prediction", items |-> items,
                    encoders |-> encoders, feature_order |-> feature_order,
                    scaler |-> scaler, exc |-> b.exc, X |-> b.X]
    /\ UNCHANGED <<disk, has_cache, cache, fsOps, nextOid>>

NextBuild ==
    \/ \E items \in BuildItemLists, encoders \in EncoderTables, feature_order \in Manifests :
           \E scaler \in ScalersFor(feature_order) :
               BuildFeatures(items, encoders, feature_order, scaler)
    \/ Respond

SpecBuild == Init /\ [][NextBuild]_vars

-----------------------------------------------------------------------------
(* The builder called on a batch and on the same batch with the fields of  *)
(* one item written in another order (a dict keeps insertion order).       *)

\* the orders in which n fields can be written
Orders(n) == {p \in [1..n -> 1..n] : \A a, b \in 1..n : p[a] = p[b] => a = b}

\* the item with its fields inserted in the order p
Reordered(item, p) == [j \in DOMAIN item |-> item[p[j]]]

BuildReordered(items, k, p, encoders, feature_order, scaler) ==
    /\ last = NoCall
    /\ \E reordered \in {[items EXCEPT ![k] = Reordered(items[k], p)]} :
       \E b \in {build_features_for_prediction(items, encoders, feature_order, scaler)},
          c \in {build_features_for_prediction(reordered, encoders, feature_order, scaler)} :
           last' = [op |-> "build_reordered", items |-> items, reordered |-> reordered,
                    encoders |-> encoders, feature_order |-> feature_order,
                    scaler |-> scaler, exc |-> b.exc, X |-> b.X,
                    exc_reordered |-> c.exc, X_reordered |-> c.X]
    /\ UNCHANGED <<disk, has_cache, cache, fsOps, nextOid>>

\* the items of BuildItemPool that have two fields or more
ReorderItemPool == {item \in BuildItemPool : Len(item) >= 2 /\ ~DictHas(item, "A")}

ReorderItemLists == UNION {[1..n -> ReorderItemPool] : n \in 1..MaxBatch}

NextReorder ==
    \/ \E items \in ReorderItemLists, encoders \in EncoderTables, feature_order \in Manifests :
         \E k \in DOMAIN items :
           \E p \in Orders(Len(items[k])) \ {[j \in DOMAIN items[k] |-> j]} :
             BuildReordered(items, k, p, encoders, feature_order, NoneVal)
    \/ Respond

SpecReorder == Init /\ [][NextReorder]_vars

-----------------------------------------------------------------------------
(* utils.py: stable_features_hash. The JSON text is a sequence of tokens;  *)
(* the digest of a text is represented by the text it was computed from    *)
(* (MD5 taken as free of collisions).                                      *)

\* the field names of the inputs, in the order sorted() gives str keys
FieldNamesSorted ==
    << "A", "B", "C", "ColegioTecnico", "FechaNacimiento", "Genero",
       "Parcial1AM1", "Parcial2AM1", "Recuperatorio1AM1", "Recuperatorio2AM1", "id" >>

\* json.dumps of a scalar written without the quotes of a string
json_scalar_unquoted(v) ==
    IF v.t = "num" THEN << DecimalStrings[v.n + 1] >>
    ELSE IF v.t = "str" THEN << v.s >>
    ELSE << "null" >>

\* json.dumps of a scalar: a number, a quoted string, or null
json_scalar(v) ==
    IF v.t = "num" THEN << DecimalStrings[v.n + 1] >>
    ELSE IF v.t = "str" THEN << "\"", v.s, "\"" >>
    ELSE << "null" >>

\* the members "key": value of the keys, separated by ", "
RECURSIVE json_members(_, _)
json_members(dict, keys) ==
    IF keys = << >> THEN << >>
    ELSE << "\"", Head(keys), "\"", ": " >> \o json_scalar(DictGet(dict, Head(keys)))
         \o (IF Tail(keys) = << >> THEN << >> ELSE << ", " >>)
         \o json_members(dict, Tail(keys))

\* json.dumps(dict, sort_keys=True)
json_object(dict) ==
    << "{" >>
    \o json_members(dict, SelectSeq(FieldNamesSorted, LAMBDA key : DictHas(dict, key)))
    \o << "}" >>

RECURSIVE json_elements(_)
json_elements(items) ==
    IF items = << >> THEN << >>
    ELSE json_object(Head(items))
         \o (IF Tail(items) = << >> THEN << >> ELSE << ", " >>)
         \o json_elements(Tail(items))

\* json.dumps(items, sort_keys=True, default=str)
json_dumps(items) == << "[" >> \o json_elements(items) \o << "]" >>

\* hashlib.md5(text.encode()).hexdigest()
md5_hexdigest(text) == [md5 |-> text]

stable_features_hash(items) == md5_hexdigest(json_dumps(items))

\* items that differ in the order of their keys, in one value, in the type of
\* one value, or in having a field
HashItemPool ==
    { << <<"Parcial1AM1", Num(7)>>, <<"Genero", Str("M")>> >>,
      << <<"Genero", Str("M")>>, <<"Parcial1AM1", Num(7)>> >>,
      << <<"Parcial1AM1", Str("7")>>, <<"Genero", Str("M")>> >>,
      << <<"Genero", Str("M")>>, <<"Parcial1AM1", Num(8)>> >>,
      << <<"Parcial1AM1", Num(7)>>, <<"Genero", NaNVal>> >>,
      << <<"Parcial1AM1", Num(7)>> >> }

HashItemLists == UNION {[1..n -> HashItemPool] : n \in 1..MaxBatch}

\* the hash of two requests
StableFeaturesHash(items, others) ==
    /\ last = NoCall
    /\ last' = [op |-> "stable_features_hash", items |-> items, others |-> others,
                hash |-> stable_features_hash(items),
                hash_others |-> stable_features_hash(others)]
    /\ UNCHANGED <<disk, has_cache, cache, fsOps, nextOid>>

NextHash ==
    \/ \E items, others \in HashItemLists : StableFeaturesHash(items, others)
    \/ Respond

SpecHash == Init /\ [][NextHash]_vars

-----------------------------------------------------------------------------
(* train_grades.py: the preprocessing of a training run, up to the         *)
(* unscaled feature frame X, and the serving of one of its records with    *)
(* the artifacts the run writes.                                           *)

\* pd.read_csv: every record has the columns of the header
read_csv(dataset) ==
    DataFrame(DictKeys(dataset[1]),
              [i \in DOMAIN dataset |->
                  [c \in Range(DictKeys(dataset[1])) |-> DictGet(dataset[i], c)]])

identify_columns_to_drop ==
    { "id", "ID", "email", "nombre", "Email", "Nombre",
      "AnioAM2", "TutorAM2", "ProfesorAM2", "VecesRecursadaAM2",
      "AsistenciaAM2", "PeriodoAM2", "ModalidadAM2", "TipoMateriaAM2",
      "Parcial1AM2", "Parcial2AM2", "Recuperatorio1AM2", "Recuperatorio2AM2",
      "Final1AM2", "Final2AM2", "Final3AM2", "ApruebaAM2",
      "Carrera", "ApruebaAM1", "Abandona" }

\* Series.median() of the non-null cells (their sums are even in this model)
median(values) == median_year(values)

\* Final1AM1, where missing, takes the mean of the scores the row has (the
\* means are whole in this model)
impute_final(df) ==
    IF ~HasCol(df, "Final1AM1") THEN df
    ELSE LET score_cols == SelectSeq(<< "Parcial1AM1", "Parcial2AM1",
                                        "Recuperatorio1AM1", "Recuperatorio2AM1" >>,
                                     LAMBDA c : HasCol(df, c))
             known(i) == SelectSeq([k \in DOMAIN score_cols |-> df.rows[i][score_cols[k]]],
                                   LAMBDA v : ~isna(v))
         IN SetCol(df, "Final1AM1",
                [i \in DOMAIN df.rows |->
                    IF isna(df.rows[i]["Final1AM1"]) /\ known(i) # << >>
                        THEN Num(SumCells(known(i)) \div Len(known(i)))
                        ELSE df.rows[i]["Final1AM1"]])

\* train_grades.impute_missing_values
impute_missing_values(df) ==
    impute_final(
        impute_retake(
            impute_retake(
                coerce_numeric(df, << "Parcial1AM1", "Parcial2AM1", "Recuperatorio1AM1",
                                      "Recuperatorio2AM1", "Final1AM1" >>),
                "Recuperatorio1AM1", "Parcial1AM1"),
            "Recuperatorio2AM1", "Parcial2AM1"))

\* the texts of the categorical cells of the datasets, as sorted() orders them
CategoryTexts == << "0", "0.0", "1", "1.0", "F", "M", "Z" >>

\* LabelEncoder().fit(df[col].dropna().astype(str)); left unfitted when the
\* column has no value
fit_encoder(values) ==
    LET texts == {as_str(values[i], is_float_column(values)) :
                     i \in {k \in DOMAIN values : ~isna(values[k])}}
    IN IF texts = {} THEN [fitted |-> FALSE, classes_ |-> << >>]
       ELSE [fitted |-> TRUE,
             classes_ |-> SelectSeq(CategoryTexts, LAMBDA text : text \in texts)]

\* the categorical loop of preprocess_features: fit, transform, fillna(-1)
RECURSIVE fit_transform(_, _, _)
fit_transform(df, cols, classes) ==
    IF cols = << >> THEN [df |-> df, classes |-> classes]
    ELSE IF ~HasCol(df, Head(cols)) THEN fit_transform(df, Tail(cols), classes)
    ELSE LET col == Head(cols)
             values == Column(df, col)
             encoder == fit_encoder(values)
             codes == [i \in DOMAIN values |->
                          IF isna(values[i]) THEN Num(-1)
                          ELSE encode_value(encoder,
                                            as_str(values[i], is_float_column(values)))]
         IN fit_transform(SetCol(df, col, codes), Tail(cols),
                          [c \in DOMAIN classes \cup {col} |->
                              IF c = col THEN encoder ELSE classes[c]])

\* train_grades.preprocess_features(df, encoders = {})
preprocess_features(df) ==
    fit_transform(
        coerce_numeric(DropCols(derive_edad(df), identify_columns_to_drop), numeric_cols),
        categorical_cols, [c \in {} |-> << >>])

base_numeric_features ==
    << "edad", "AsistenciaAM1", "VecesRecursadaAM1", "Parcial1AM1", "Parcial2AM1",
       "Recuperatorio1AM1", "Recuperatorio2AM1", "PromedioNotasColegio",
       "AniosUniversidad" >>

select_feature_columns(df) ==
    SelectSeq(base_numeric_features \o categorical_cols \o << "FechaNacimiento" >>,
              LAMBDA c : HasCol(df, c))

\* main, lines 342-354: FechaNacimiento becomes the year, the median year where
\* the date is missing
train_fecha_numeric(df) ==
    IF ~HasCol(df, "FechaNacimiento") THEN df
    ELSE LET years == [i \in DOMAIN df.rows |-> year_of(df.rows[i]["FechaNacimiento"])]
         IN SetCol(df, "FechaNacimiento_numeric",
                [i \in DOMAIN years |->
                    IF isna(years[i]) /\ (\E k \in DOMAIN years : ~isna(years[k]))
                        THEN Num(median(years)) ELSE years[i]])

\* main, lines 358-361: a missing number takes the median of its column
RECURSIVE fill_median(_, _)
fill_median(df, cols) ==
    IF cols = << >> THEN df
    ELSE LET col == Head(cols)
             values == Column(df, col)
             fill == IF \E i \in DOMAIN values : ~isna(values[i])
                         THEN Num(median(values)) ELSE Num(0)
         IN fill_median(
                IF \A i \in DOMAIN values : values[i].t # "str"
                    THEN SetCol(df, col, [i \in DOMAIN values |-> fillna(values[i], fill)])
                    ELSE df,
                Tail(cols))

\* main, lines 320-398 and 470-478: the unscaled frame X, the encoders and the
\* manifest of a training run on the dataset
train(dataset) ==
    LET processed == preprocess_features(impute_missing_values(read_csv(dataset)))
        selected == select_feature_columns(processed.df)
        feature_columns ==
            [j \in DOMAIN selected |->
                IF selected[j] = "FechaNacimiento" THEN "FechaNacimiento_numeric"
                ELSE selected[j]]
        X == fill_median(train_fecha_numeric(processed.df), feature_columns)
        base_numeric == Range(base_numeric_features) \cup {"FechaNacimiento_numeric"}
    IN [X |-> X,
        encoders |-> Encoders(processed.classes, 0),
        feature_order |->
            FeatureOrder(SelectSeq(feature_columns, LAMBDA c : c \in base_numeric),
                         SelectSeq(feature_columns, LAMBDA c : c \in Range(categorical_cols)),
                         feature_columns)]

\* the records of the datasets
RecordPool ==
    { << <<"id", Num(1)>>, <<"Parcial1AM1", Num(7)>>, <<"Recuperatorio1AM1", NaNVal>>,
         <<"AsistenciaAM1", Num(8)>>, <<"Genero", Str("M")>>,
         <<"ColegioTecnico", Num(1)>>, <<"Final1AM1", Num(6)>> >>,
      << <<"id", Num(2)>>, <<"Parcial1AM1", Num(4)>>, <<"Recuperatorio1AM1", Num(6)>>,
         <<"AsistenciaAM1", NaNVal>>, <<"Genero", Str("F")>>,
         <<"ColegioTecnico", Num(0)>>, <<"Final1AM1", Num(4)>> >>,
      << <<"id", Num(3)>>, <<"Parcial1AM1", Num(8)>>, <<"Recuperatorio1AM1", Num(8)>>,
         <<"AsistenciaAM1", Num(10)>>, <<"Genero", Str("F")>>,
         <<"ColegioTecnico", Num(1)>>, <<"Final1AM1", Num(8)>> >>,
      << <<"id", Num(4)>>, <<"Parcial1AM1", NaNVal>>, <<"Recuperatorio1AM1", NaNVal>>,
         <<"AsistenciaAM1", Num(6)>>, <<"Genero", NaNVal>>,
         <<"ColegioTecnico", NaNVal>>, <<"Final1AM1", Num(2)>> >>,
      << <<"id", Num(5)>>, <<"Parcial1AM1", Num(2)>>, <<"Recuperatorio1AM1", Num(4)>>,
         <<"AsistenciaAM1", Num(4)>>, <<"Genero", Str("M")>>,
         <<"ColegioTecnico", Num(0)>>, <<"Final1AM1", Num(4)>> >> }

TrainDatasets == UNION {[1..n -> RecordPool] : n \in 1..MaxTrainRows}

\* a training run on the dataset, then the record i of the dataset served
\* alone, without scaler, with the encoders and the manifest of the run
TrainAndServe(dataset, i) ==
    /\ last = NoCall
    /\ \E run \in {train(dataset)} :
       \E b \in {build_features_for_prediction(<< dataset[i] >>, run.encoders,
                                               run.feature_order, NoneVal)} :
           last' = [op |-> "train_and_serve", dataset |-> dataset, record |-> i,
                    feature_order |-> run.feature_order, encoders |-> run.encoders,
                    trained |-> run.X.rows[i], exc |-> b.exc, X |-> b.X]
    /\ UNCHANGED <<disk, has_cache, cache, fsOps, nextOid>>

NextTrain ==
    \/ \E dataset \in TrainDatasets : \E i \in DOMAIN dataset : TrainAndServe(dataset, i)
    \/ Respond

SpecTrain == Init /\ [][NextTrain]_vars

-----------------------------------------------------------------------------
(* ensure_models_loaded called from several threads (SpecThreads).  The    *)
(* function takes no lock; the interpreter may switch threads between any  *)
(* two statements.  The variable last holds, per thread, the statement it  *)
(* is at and its locals, and the keys stored so far with the bundle each   *)
(* was first stored with.                                                  *)

Threads == {1, 2}

\* MODEL_DIR with every version trained
TrainedDisk ==
    [p \in Paths |->
        IF p.name = "grades" /\ p.file \in TrainedFiles
            THEN TrainedContent(KindOf(p), p.version, 1)
            ELSE Absent]

ThreadsIdle ==
    [op |-> "threads",
     pc |-> [t \in Threads |-> "idle"],
     key |-> [t \in Threads |-> ""],
     version |-> [t \in Threads |-> ""],
     result |-> [t \in Threads |-> NoBundle],
     stored |-> EmptyCache,
     calls |-> 0]

InitThreads ==
    /\ disk \in {DeployedDisk, TrainedDisk}
    /\ has_cache = FALSE
    /\ cache = EmptyCache
    /\ last = ThreadsIdle
    /\ fsOps = 0
    /\ nextOid = 1

\* line 189-192: the call starts
ThreadCall(t, version) ==
    /\ last.pc[t] = "idle"
    /\ last.calls < MaxCalls
    /\ last' = [last EXCEPT !.pc[t] = "hasattr",
                            !.version[t] = version_or_default(version),
                            !.key[t] = cache_key("grades", version_or_default(version)),
                            !.result[t] = NoBundle,
                            !.calls = @ + 1]
    /\ UNCHANGED <<disk, has_cache, cache, fsOps, nextOid>>

\* line 195: if not hasattr(ensure_models_loaded, "_cache")
ThreadHasattr(t) ==
    /\ last.pc[t] = "hasattr"
    /\ last' = [last EXCEPT !.pc[t] = IF has_cache THEN "lookup" ELSE "create"]
    /\ UNCHANGED <<disk, has_cache, cache, fsOps, nextOid>>

\* line 196: ensure_models_loaded._cache = {}
ThreadCreate(t) ==
    /\ last.pc[t] = "create"
    /\ has_cache' = TRUE
    /\ cache' = EmptyCache
    /\ last' = [last EXCEPT !.pc[t] = "lookup"]
    /\ UNCHANGED <<disk, fsOps, nextOid>>

\* lines 199-201: if cache_key in ensure_models_loaded._cache: return it
ThreadLookup(t) ==
    /\ last.pc[t] = "lookup"
    /\ last' = [last EXCEPT !.pc[t] = IF last.key[t] \in DOMAIN cache THEN "idle" ELSE "load",
                            !.result[t] = IF last.key[t] \in DOMAIN cache
                                              THEN cache[last.key[t]] ELSE NoBundle]
    /\ UNCHANGED <<disk, has_cache, cache, fsOps, nextOid>>

\* lines 203-244: the artifacts are read from disk; an exception ends the call
ThreadLoad(t) ==
    /\ last.pc[t] = "load"
    /\ \E e \in {ensure_models_loaded(disk, EmptyCache, nextOid, "grades", last.version[t])} :
           /\ last' = [last EXCEPT !.pc[t] = IF e.exc = "" THEN "store" ELSE "idle",
                                    !.result[t] = e.bundle]
           /\ nextOid' = IF e.exc = "" THEN nextOid + 1 ELSE nextOid
    /\ UNCHANGED <<disk, has_cache, cache, fsOps>>

\* line 247: ensure_models_loaded._cache[cache_key] = result
ThreadStore(t) ==
    /\ last.pc[t] = "store"
    /\ cache' = cache_put(cache, last.key[t], last.result[t])
    /\ last' = [last EXCEPT !.pc[t] = "idle",
                            !.stored = IF last.key[t] \in DOMAIN last.stored THEN @
                                       ELSE cache_put(@, last.key[t], last.result[t])]
    /\ UNCHANGED <<disk, has_cache, fsOps, nextOid>>

NextThreads ==
    \/ \E t \in Threads, v \in VersionArgs : ThreadCall(t, v)
    \/ \E t \in Threads : ThreadHasattr(t)
    \/ \E t \in Threads : ThreadCreate(t)
    \/ \E t \in Threads : ThreadLookup(t)
    \/ \E t \in Threads : ThreadLoad(t)
    \/ \E t \in Threads : ThreadStore(t)

SpecThreads == InitThreads /\ [][NextThreads]_vars

-----------------------------------------------------------------------------
(* The builder on items that carry a birth date (SpecDates).               *)

DateItemPool ==
    { << <<"FechaNacimiento", Str("15/03/2000")>>, <<"edad", Num(30)>> >>,
      << <<"FechaNacimiento", Str("15/03/2000")>>, <<"FechaNacimiento_numeric", Num(1990)>> >>,
      << <<"FechaNacimiento", Str("15/03/2000")>>, <<"Parcial1AM1", Num(7)>> >>,
      << <<"FechaNacimiento", Str("ayer")>>, <<"Genero", Str("F")>> >>,
      << <<"FechaNacimiento_numeric", Num(1995)>>, <<"edad", Num(31)>> >>,
      << <<"Parcial1AM1", Num(5)>>, <<"Genero", NaNVal>> >> }

DateItemLists == UNION {[1..n -> DateItemPool] : n \in 1..MaxBatch}

\* manifests of runs that kept edad, or the year of birth, as a feature
DateManifests ==
    { FeatureOrder(<< "edad", "Parcial1AM1" >>, << "Genero" >>,
                   << "edad", "Parcial1AM1", "Genero" >>),
      FeatureOrder(<< "Parcial1AM1", "FechaNacimiento_numeric" >>, << "Genero" >>,
                   << "Parcial1AM1", "Genero", "FechaNacimiento_numeric" >>) }

NextDates ==
    \/ \E items \in DateItemLists, encoders \in EncoderTables, feature_order \in DateManifests :
         \E scaler \in ScalersFor(feature_order) :
           BuildFeatures(items, encoders, feature_order, scaler)
    \/ Respond

SpecDates == Init /\ [][NextDates]_vars

-----------------------------------------------------------------------------
(* The builder called on a batch and on the same batch with one field of   *)
(* one item added or changed (SpecVariant).                                *)

\* dict[field] = value: replaces the value of a present key, appends a new key
SetField(dict, field, value) ==
    IF DictHas(dict, field)
        THEN [j \in DOMAIN dict |-> IF dict[j][1] = field THEN << field, value >> ELSE dict[j]]
    ELSE Append(dict, << field, value >>)

VariantItemPool ==
    { << <<"Parcial1AM1", Num(7)>>, <<"ColegioTecnico", Num(1)>> >>,
      << <<"Recuperatorio1AM1", Num(9)>>, <<"Parcial1AM1", Num(3)>>, <<"Final1AM1", Num(2)>> >>,
      << <<"id", Num(4)>>, <<"Recuperatorio1AM1", NaNVal>> >> }

VariantItemLists == UNION {[1..n -> VariantItemPool] : n \in 1..MaxBatch}

\* the fields that are added or changed: unknown to the builder, deny-listed,
\* categorical, or a source of a derived value
VariantFields == {"nota", "id", "Final1AM1", "Genero", "FechaNacimiento", "Parcial1AM1"}

VariantValues == {Num(3), Str("M"), NaNVal}

\* manifests of training runs; the last lists a deny-listed column
VariantManifests ==
    { FeatureOrder(<< "Parcial1AM1", "Recuperatorio1AM1" >>, << "ColegioTecnico" >>,
                   << "Parcial1AM1", "Recuperatorio1AM1", "ColegioTecnico" >>),
      FeatureOrder(<< "edad", "Recuperatorio1AM1" >>, << "ColegioTecnico" >>,
                   << "edad", "Recuperatorio1AM1", "ColegioTecnico" >>),
      FeatureOrder(<< "Parcial1AM1", "Final1AM1" >>, << "ColegioTecnico" >>,
                   << "Parcial1AM1", "Final1AM1", "ColegioTecnico" >>) }

BuildVariant(items, k, field, value, encoders, feature_order) ==
    /\ last = NoCall
    /\ \E variant \in {[items EXCEPT ![k] = SetField(items[k], field, value)]} :
       \E b \in {build_features_for_prediction(items, encoders, feature_order, NoneVal)},
          c \in {build_features_for_prediction(variant, encoders, feature_order, NoneVal)} :
           last' = [op |-> "build_variant", items |-> items, variant |-> variant,
                    index |-> k, field |-> field, added |-> ~DictHas(items[k], field),
                    encoders |-> encoders, feature_order |-> feature_order,
                    exc |-> b.exc, X |-> b.X,
                    exc_variant |-> c.exc, X_variant |-> c.X]
    /\ UNCHANGED <<disk, has_cache, cache, fsOps, nextOid>>

NextVariant ==
    \/ \E items \in VariantItemLists, encoders \in EncoderTables,
          feature_order \in VariantManifests :
         \E k \in DOMAIN items, field \in VariantFields, value \in VariantValues :
           /\ SetField(items[k], field, value) # items[k]
           /\ BuildVariant(items, k, field, value, encoders, feature_order)
    \/ Respond

SpecVariant == Init /\ [][NextVariant]_vars

-----------------------------------------------------------------------------
(* The endpoint over a bundle whose manifest lists no features              *)
(* (SpecManifest).                                                          *)

\* feature_order.json of the production version
ManifestPath == Path("grades", MODEL_VERSION, "feature_order.json")

\* manifests with no numeric and no categorical feature (the lists are empty,
\* or the keys are missing and read with get(key, [])), with and without names
\* in all_features
EmptyManifests ==
    { FeatureOrder(<< >>, << >>, << >>),
      FeatureOrder(<< >>, << >>, << "Parcial1AM1", "Genero" >>) }

ManifestContents ==
    EmptyManifests \cup {TrainedContent("feature_order", MODEL_VERSION, run) : run \in Datasets}

NextManifest ==
    \/ \E content \in ManifestContents : WriteFile(ManifestPath, content, MaxPredictFsOps)
    \/ \E items \in ItemLists : PredictGrades(items)
    \/ Respond

SpecManifest == Init /\ [][NextManifest]_vars

-----------------------------------------------------------------------------
(* Calls of ensure_models_loaded that fail and are made again while the    *)
(* directory is repaired (SpecRetry).                                      *)

\* no call in progress; failed holds the keys whose latest call raised
RetryIdle == [op |-> "retry", failed |-> {}, call |-> NoCall]

InitRetry ==
    /\ disk \in {[p \in Paths |-> Absent], DeployedDisk}
    /\ has_cache = FALSE
    /\ cache = EmptyCache
    /\ last = RetryIdle
    /\ fsOps = 0
    /\ nextOid = 1

\* a call of ensure_models_loaded(name, version)
RetryEnsure(name, version) ==
    /\ last.call = NoCall
    /\ \E e \in {ensure_models_loaded(disk, cache, nextOid, name, version)} :
         \E key \in {cache_key(name, version_or_default(version))} :
           /\ has_cache' = TRUE
           /\ cache' = e.cache
           /\ nextOid' = IF e.exc = "" /\ ~e.hit THEN nextOid + 1 ELSE nextOid
           /\ last' = [op |-> "retry",
                       failed |-> IF e.exc # "" THEN last.failed \cup {key}
                                  ELSE last.failed \ {key},
                       call |-> [name |-> name, version |-> version_or_default(version),
                                 key |-> key, exc |-> e.exc, bundle |-> e.bundle,
                                 hit |-> e.hit, probed |-> e.probed,
                                 cache_before |-> cache, failed_before |-> last.failed]]
    /\ UNCHANGED <<disk, fsOps>>

\* the caller has the bundle or the exception
RetryReturn ==
    /\ last.call # NoCall
    /\ last' = [last EXCEPT !.call = NoCall]
    /\ UNCHANGED <<disk, has_cache, cache, fsOps, nextOid>>

\* python -m app.train_grades --version {version}
RetryTrain(version, run) ==
    /\ fsOps < MaxFsOps
    /\ disk' = [p \in Paths |->
                   IF p.name = "grades" /\ p.version = version /\ p.file \in TrainedFiles
                       THEN TrainedContent(KindOf(p), version, run)
                       ELSE disk[p]]
    /\ fsOps' = fsOps + 1
    /\ last' = [last EXCEPT !.call = NoCall]
    /\ UNCHANGED <<has_cache, cache, nextOid>>

\* the environment writes, overwrites or damages one file of MODEL_DIR
RetryWrite(p, content) ==
    /\ fsOps < MaxFsOps
    /\ disk[p] # content
    /\ disk' = [disk EXCEPT ![p] = content]
    /\ fsOps' = fsOps + 1
    /\ last' = [last EXCEPT !.call = NoCall]
    /\ UNCHANGED <<has_cache, cache, nextOid>>

\* the environment deletes one file of MODEL_DIR
RetryRemove(p) ==
    /\ fsOps < MaxFsOps
    /\ exists(disk, p)
    /\ disk' = [disk EXCEPT ![p] = Absent]
    /\ fsOps' = fsOps + 1
    /\ last' = [last EXCEPT !.call = NoCall]
    /\ UNCHANGED <<has_cache, cache, nextOid>>

NextRetry ==
    \/ \E v \in Versions, run \in Datasets : RetryTrain(v, run)
    \/ \E p \in EditablePaths : \E content \in ContentsFor(p) : RetryWrite(p, content)
    \/ \E p \in EditablePaths : RetryRemove(p)
    \/ \E n \in Names, v \in VersionArgs : RetryEnsure(n, v)
    \/ RetryReturn

SpecRetry == InitRetry /\ [][NextRetry]_vars

-----------------------------------------------------------------------------
(* Properties of clamp_grades (SpecClamp).                                 *)

InRange(v) ==
    v.t = "num" /\ min_grade <= v.n /\ v.n <= max_grade

\* C1: clamp_grades returns one value per prediction, in order; a prediction
\* below min_grade becomes min_grade, one above max_grade becomes max_grade and
\* any other number is returned unchanged; every output (that of a NaN
\* prediction included) lies in [min_grade, max_grade], and clamping a clamped
\* list changes nothing.
C1_ClampGrades ==
    last.op = "clamp_grades" =>
        /\ Len(last.out) = Len(last.preds)
        /\ \A i \in 1..Len(last.preds) :
              LET p == last.preds[i]
                  o == last.out[i]
              IN  /\ (p.t = "num" /\ p.n < min_grade) => o = Num(min_grade)
                  /\ (p.t = "num" /\ p.n > max_grade) => o = Num(max_grade)
                  /\ (p.t = "num" /\ p.n >= min_grade /\ p.n <= max_grade) => o = p
                  /\ InRange(o)
        /\ clamp_grades(last.out) = last.out

\* C1 witness: one call clamps a list holding a low, a high and an inner prediction
C1_Witness ==
    /\ last.op = "clamp_grades"
    /\ \E i, j, k \in 1..Len(last.preds) :
          /\ last.preds[i].t = "num" /\ last.preds[i].n < min_grade
          /\ last.preds[j].t = "num" /\ last.preds[j].n > max_grade
          /\ InRange(last.preds[k]) /\ last.preds[k].n \notin {min_grade, max_grade}

-----------------------------------------------------------------------------
(* Properties of POST /predict/grades (SpecPredict).                       *)

\* the number item gives for a numeric feature, as such or as a decimal
\* string; 0 when it gives none
OwnNumber(item, feat) ==
    IF ~DictHas(item, feat) THEN 0
    ELSE LET v == DictGet(item, feat) IN
         IF v.t = "num" THEN v.n
         ELSE IF v.t = "str" /\ Contains(DecimalStrings, v.s)
             THEN IndexOf(DecimalStrings, v.s) - 1
         ELSE 0

\* the cell a row shows for the raw number x in column j of the numeric block
ShownCell(scaler, j, x) ==
    IF scaler = NoneVal THEN Num(x) ELSE Num((x - scaler.mean[j]) \div scaler.scale[j])

\* C2: a successful response to N >= 1 items holds exactly N predictions; the
\* matrix has one row per item, row i shows item i's own Parcial1AM1, and
\* prediction i is the clamped output of the model for row i.
C2_OnePredictionPerItem ==
    (last.op = "predict_grades" /\ last.status = 200) =>
        LET N == Len(last.items)
            feats == last.bundle.feature_order.numeric_features
        IN  /\ N >= 1
            /\ Len(last.preds) = N
            /\ Len(last.X) = N
            /\ \A i \in 1..N :
                  /\ last.preds[i] = clamp_one(predict_row(last.bundle.model, last.X[i]))
                  /\ Contains(feats, "Parcial1AM1") =>
                        last.X[i][IndexOf(feats, "Parcial1AM1")] =
                            ShownCell(last.bundle.scaler, IndexOf(feats, "Parcial1AM1"),
                                      OwnNumber(last.items[i], "Parcial1AM1"))

\* C2 witness: two different items, the empty one first, answered with two
\* different predictions
C2_Witness ==
    /\ last.op = "predict_grades" /\ last.status = 200
    /\ Len(last.items) = 2
    /\ last.items[1] = << >> /\ last.items[2] # << >>
    /\ last.preds[1] # last.preds[2]

\* C3: a request with an empty item list is answered 400 without calling the
\* registry: no file is probed and the cache is as it was.
C3_EmptyBatchRejected ==
    (last.op = "predict_grades" /\ last.items = << >>) =>
        /\ last.status = 400
        /\ ~last.ensure_called /\ ~last.builder_called /\ ~last.model_called
        /\ last.probed = {}
        /\ cache = last.cache_before
        /\ has_cache = last.has_cache_before

\* C3 witness: an empty request arrives while the artifacts are on disk and
\* nothing is cached yet
C3_Witness ==
    /\ last.op = "predict_grades" /\ last.items = << >>
    /\ ~has_cache
    /\ ensure_models_loaded(disk, cache, nextOid, "grades", MODEL_VERSION).exc = ""

\* the model file of the production version, under either naming convention
ModelFileExists(d) ==
    \/ exists(d, Path("grades", MODEL_VERSION, "grades_model.joblib"))
    \/ exists(d, Path("grades", MODEL_VERSION, "grades_model.pkl"))

ManifestExists(d) == exists(d, Path("grades", MODEL_VERSION, "feature_order.json"))

\* C8: a non-empty request that finds the model file or the manifest missing,
\* with no bundle cached, is answered 503; neither the feature builder nor the
\* model is invoked and no prediction is returned.
C8_MissingArtifactIs503 ==
    ( /\ last.op = "predict_grades" /\ last.items # << >>
      /\ ~ModelFileExists(disk) \/ ~ManifestExists(disk)
      /\ cache_key("grades", MODEL_VERSION) \notin DOMAIN last.cache_before ) =>
        /\ last.status = 503
        /\ ~last.builder_called /\ ~last.model_called
        /\ last.preds = << >>

\* C8 witness: the model file is there, the manifest is not, nothing is cached
C8_Witness ==
    /\ last.op = "predict_grades" /\ last.items # << >>
    /\ ModelFileExists(disk) /\ ~ManifestExists(disk)
    /\ cache_key("grades", MODEL_VERSION) \notin DOMAIN last.cache_before
    /\ last.status = 503

-----------------------------------------------------------------------------
(* Properties of ensure_models_loaded (Spec).                              *)

Readable(d, p) == d[p] \notin {Absent, Corrupt}

\* the call recorded in last was a cache miss
Miss == last.op = "ensure_models_loaded" /\ last.key \notin DOMAIN last.cache_before

\* the version directory the recorded call resolved
LastVersion == version_or_default(last.version)
LastManifest == Path(last.name, LastVersion, "feature_order.json")
LastMeta == Path(last.name, LastVersion, "meta.json")
LastLegacyMeta == Path(last.name, LastVersion, "metadata.json")
LastModelAbsent ==
    /\ ~exists(disk, Path(last.name, LastVersion, last.name \o "_model.joblib"))
    /\ ~exists(disk, Path(last.name, LastVersion, last.name \o "_model.pkl"))
LastModelReadable == Readable(disk, get_model_paths(disk, last.name, last.version).model)
LastScalerAbsent ==
    /\ ~exists(disk, Path(last.name, LastVersion, last.name \o "_scaler.joblib"))
    /\ ~exists(disk, Path(last.name, LastVersion, last.name \o "_scaler.pkl"))
LastEncoderAbsent ==
    /\ ~exists(disk, Path(last.name, LastVersion, last.name \o "_encoders.joblib"))
    /\ ~exists(disk, Path(last.name, LastVersion, last.name \o "_encoder.pkl"))

\* C4: a call never removes or replaces a cached bundle, and a call for a key
\* that is cached returns the cached bundle itself without touching a file,
\* whatever the disk holds by then.
C4_CacheHitReturnsCached ==
    last.op = "ensure_models_loaded" =>
        /\ has_cache
        /\ \A k \in DOMAIN last.cache_before :
              k \in DOMAIN cache /\ cache[k] = last.cache_before[k]
        /\ last.key \in DOMAIN last.cache_before =>
              /\ last.hit /\ last.exc = ""
              /\ last.bundle = last.cache_before[last.key]
              /\ last.probed = {}
              /\ cache = last.cache_before

\* C4 witness: a hit for one key, with another key cached too, after the model
\* file behind the returned bundle was removed or changed on disk
C4_Witness ==
    /\ last.op = "ensure_models_loaded" /\ last.hit
    /\ DOMAIN cache # {last.key}
    /\ disk[get_model_paths(disk, last.name, last.version).model] # last.bundle.model

\* C5 (as amended): on a cache miss the call raises FileNotFoundError whenever
\* the model file is absent, and whenever the model file deserializes and
\* feature_order.json is absent; when model, manifest and metadata are readable
\* it succeeds whatever the scaler and encoder files are, with scaler None /
\* encoders None when the file is absent.
C5_MandatoryAndOptionalArtifacts ==
    Miss =>
        /\ LastModelAbsent => last.exc = "FileNotFoundError"
        /\ (LastModelReadable /\ ~exists(disk, LastManifest)) =>
              last.exc = "FileNotFoundError"
        /\ ( /\ LastModelReadable /\ Readable(disk, LastManifest)
             /\ Readable(disk, LastMeta)
                  \/ (~exists(disk, LastMeta) /\ Readable(disk, LastLegacyMeta)) ) =>
              /\ last.exc = ""
              /\ LastScalerAbsent => last.bundle.scaler = NoneVal
              /\ LastEncoderAbsent => last.bundle.encoders = NoneVal

\* C5 witness: a miss that succeeds with neither a scaler nor an encoder file
C5_Witness ==
    /\ Miss /\ last.exc = ""
    /\ LastScalerAbsent /\ LastEncoderAbsent
    /\ last.bundle.scaler = NoneVal /\ last.bundle.encoders = NoneVal

\* C5 as stated: on a cache miss the call raises FileNotFoundError whenever
\* the model file or feature_order.json is absent.
C5_Original ==
    Miss =>
        /\ (LastModelAbsent \/ ~exists(disk, LastManifest)) =>
              last.exc = "FileNotFoundError"
        /\ ( /\ LastModelReadable /\ Readable(disk, LastManifest)
             /\ Readable(disk, LastMeta)
                  \/ (~exists(disk, LastMeta) /\ Readable(disk, LastLegacyMeta)) ) =>
              /\ last.exc = ""
              /\ LastScalerAbsent => last.bundle.scaler = NoneVal
              /\ LastEncoderAbsent => last.bundle.encoders = NoneVal

\* C6 (as amended): a bundle that a miss returns carries the content of
\* meta.json if that file exists, else that of the legacy metadata.json; when
\* neither exists the load fails and returns no bundle, and the failure is a
\* FileNotFoundError whenever the model file and feature_order.json were read.
C6_MetadataFallback ==
    Miss =>
        /\ last.exc = "" =>
              last.bundle.meta = IF exists(disk, LastMeta) THEN disk[LastMeta]
                                 ELSE disk[LastLegacyMeta]
        /\ (~exists(disk, LastMeta) /\ ~exists(disk, LastLegacyMeta)) =>
              /\ last.exc # "" /\ last.bundle = NoBundle
              /\ last.key \notin DOMAIN cache
              /\ (LastModelReadable /\ Readable(disk, LastManifest)) =>
                    last.exc = "FileNotFoundError"

\* C6 witness: meta.json is gone and the bundle carries the legacy metadata.json
C6_Witness ==
    /\ Miss /\ last.exc = ""
    /\ ~exists(disk, LastMeta)
    /\ last.bundle.meta = disk[LastLegacyMeta]

\* C6 as stated: when neither metadata file exists the load fails with
\* FileNotFoundError.
C6_Original ==
    Miss =>
        /\ last.exc = "" =>
              last.bundle.meta = IF exists(disk, LastMeta) THEN disk[LastMeta]
                                 ELSE disk[LastLegacyMeta]
        /\ (~exists(disk, LastMeta) /\ ~exists(disk, LastLegacyMeta)) =>
              /\ last.exc = "FileNotFoundError" /\ last.bundle = NoBundle
              /\ last.key \notin DOMAIN cache

-----------------------------------------------------------------------------
(* Properties of get_model_paths (SpecPaths).                              *)

\* what the recorded call must answer for an artifact whose file is named
\* new under the new convention and legacy under the legacy one
ResolvedAs(chosen, new, legacy) ==
    LET n == Path(last.name, LastVersion, new)
        l == Path(last.name, LastVersion, legacy)
    IN  /\ exists(disk, n) => chosen = n
        /\ (~exists(disk, n) /\ exists(disk, l)) => chosen = l
        /\ (~exists(disk, n) /\ ~exists(disk, l)) => chosen = n
        /\ chosen \in {n, l}
        /\ ~exists(disk, chosen) => (~exists(disk, n) /\ ~exists(disk, l))

\* C7: for the model, the scaler and the encoder alike, get_model_paths
\* answers the new-convention path if that file exists, else the legacy path
\* if that file exists, else the new-convention path; it never answers a path
\* without a file while the file of the other convention exists.
C7_PathResolution ==
    last.op = "get_model_paths" =>
        /\ ResolvedAs(last.paths.model, last.name \o "_model.joblib",
                      last.name \o "_model.pkl")
        /\ ResolvedAs(last.paths.scaler, last.name \o "_scaler.joblib",
                      last.name \o "_scaler.pkl")
        /\ ResolvedAs(last.paths.encoder, last.name \o "_encoders.joblib",
                      last.name \o "_encoder.pkl")

\* C7 witness: one call answers the legacy model file, the new scaler file
\* although a legacy one exists too, and the new encoder path although no
\* encoder file exists
C7_Witness ==
    /\ last.op = "get_model_paths"
    /\ last.paths.model.file = "grades_model.pkl"
    /\ last.paths.scaler.file = "grades_scaler.joblib"
    /\ exists(disk, Path(last.name, LastVersion, "grades_scaler.pkl"))
    /\ last.paths.encoder.file = "grades_encoders.joblib"
    /\ ~exists(disk, last.paths.encoder)

-----------------------------------------------------------------------------
(* The error mapping of POST /predict/grades (SpecPredict).                *)

\* C9 as stated: every request ends in one status; an empty batch is a 400, a
\* failure while loading a 503, a ValueError of the feature builder a 400 and
\* any other exception a 500.
C9_ErrorMapping ==
    last.op = "predict_grades" =>
        /\ last.status \in {200, 400, 500, 503}
        /\ last.status = 200 <=> last.stage = ""
        /\ last.stage = "empty" => last.status = 400
        /\ last.stage = "load" => last.status = 503
        /\ (last.stage = "build" /\ last.exc = "ValueError") => last.status = 400
        /\ (last.stage = "build" /\ last.exc # "ValueError") => last.status = 500
        /\ last.stage = "predict" => last.status = 500

\* C10 as stated: a request whose model.predict call raises is answered 500,
\* whatever the type of the exception.
C10_PredictFailureIs500 ==
    (last.op = "predict_grades" /\ last.stage = "predict") => last.status = 500

-----------------------------------------------------------------------------
(* Properties of build_features_for_prediction (SpecBuild).                *)

\* the recorded call returned a matrix
Returned == last.op = "build_features_for_prediction" /\ last.exc = ""

\* the columns of the returned matrix: the numeric block, then the categorical
LastLayout == last.feature_order.numeric_features \o last.feature_order.categorical_features

\* the cell of row i under the feature feat
CellOf(i, feat) == last.X[i][IndexOf(LastLayout, feat)]

\* item gives a value for field, and the value is not null
Supplies(item, field) == DictHas(item, field) /\ ~isna(DictGet(item, field))

\* the four columns the builder treats as categorical, as far as the manifest
\* of the recorded call lists them
LastCategoricalColumns ==
    {c \in Range(categorical_cols) : Contains(last.feature_order.categorical_features, c)}

\* the text of the cell that holds v in the column col of the batch: a string
\* is itself, a number is written as an integer when every item of the batch
\* gives a number for col and as a float when some item gives none
TextOfCell(v, col) ==
    IF v.t = "str" THEN v.s
    ELSE IF \A k \in DOMAIN last.items : Supplies(last.items[k], col)
        THEN DecimalStrings[v.n + 1]
    ELSE FloatStrings[v.n + 1]

CategoricalContentIsText ==
    \A i \in DOMAIN last.items : \A col \in Range(categorical_cols) :
        DictHas(last.items[i], col) =>
            \/ isna(DictGet(last.items[i], col))
            \/ DictGet(last.items[i], col).t = "str"

\* the recorded encoder table has a fitted entry for col
HasEntry(col) ==
    /\ encoders_truthy(last.encoders)
    /\ col \in DOMAIN last.encoders.classes

\* C12: whatever strings and nulls the items hold in the categorical columns
\* and whatever the encoder table (absent, empty, or without an entry for the
\* column), the builder returns a matrix, and a cell of a categorical column
\* that has no entry to encode it holds -1.
C12_NeverRaisesOnCategoricalContent ==
    (last.op = "build_features_for_prediction" /\ CategoricalContentIsText) =>
        /\ last.exc = ""
        /\ \A col \in LastCategoricalColumns : \A i \in DOMAIN last.items :
              ~HasEntry(col) => CellOf(i, col) = Num(-1)

\* C13: with no encoder table, every cell of every categorical column is -1,
\* whatever value the item gives, numbers included.
C13_NoEncodersAllSentinel ==
    (Returned /\ last.encoders = NoneVal) =>
        \A col \in LastCategoricalColumns : \A i \in DOMAIN last.items :
            CellOf(i, col) = Num(-1)

\* the item of the end-to-end scenario
ScenarioItem == << <<"A", Num(7)>>, <<"B", Num(3)>>, <<"C", Str("x")>> >>

\* the recorded call is the end-to-end scenario: features A, B numeric and C
\* categorical, scaler mean [5, 5] and scale [1, 1], C encoded x -> 0, y -> 1
IsScenario ==
    /\ last.op = "build_features_for_prediction"
    /\ last.items = << ScenarioItem >>
    /\ last.feature_order = FeatureOrder(<<"A", "B">>, <<"C">>, <<"A", "B", "C">>)
    /\ last.scaler # NoneVal
    /\ HasEntry("C")
    /\ last.encoders.classes["C"].classes_ = << "x", "y" >>

\* C14: the end-to-end scenario yields the row [2.0, -2.0, 0]; and in every
\* call each column the manifest lists as categorical and that has an entry
\* in the encoder table is encoded, whatever the column's name.
C14_ScenarioRow ==
    /\ IsScenario => (last.exc = "" /\ last.X = << << Num(2), Num(-2), Num(0) >> >>)
    /\ Returned =>
          \A col \in Range(last.feature_order.categorical_features) :
              \A i \in DOMAIN last.items :
                  (HasEntry(col) /\ Supplies(last.items[i], col)
                       /\ DictGet(last.items[i], col).t = "str") =>
                      CellOf(i, col) =
                          encode_value(last.encoders.classes[col],
                                       DictGet(last.items[i], col).s)

\* the two pairs of partial score and retake score
RetakePairs ==
    { <<"Parcial1AM1", "Recuperatorio1AM1">>, <<"Parcial2AM1", "Recuperatorio2AM1">> }

\* item gives no number for field: the key is absent, null, or not numeric
Missing(item, field) ==
    \/ ~DictHas(item, field)
    \/ isna(to_numeric(DictGet(item, field)))

\* C15: in the unscaled matrix, for both pairs: an item with a partial score
\* and a missing retake score has the partial score in the retake slot; a
\* retake score the item gives is kept; the partial score is kept.
C15_RetakeImputation ==
    (Returned /\ last.scaler = NoneVal) =>
        \A pair \in RetakePairs : \A i \in DOMAIN last.items :
            LET item == last.items[i]
                partial == pair[1]
                retake == pair[2]
            IN  /\ ( /\ Contains(LastLayout, retake)
                     /\ ~Missing(item, partial)
                     /\ Missing(item, retake) ) =>
                        CellOf(i, retake) = to_numeric(DictGet(item, partial))
                /\ (Contains(LastLayout, retake) /\ ~Missing(item, retake)) =>
                        CellOf(i, retake) = to_numeric(DictGet(item, retake))
                /\ (Contains(LastLayout, partial) /\ ~Missing(item, partial)) =>
                        CellOf(i, partial) = to_numeric(DictGet(item, partial))

-----------------------------------------------------------------------------
(* Properties of the builder under a change of field order (SpecReorder).  *)

\* C16: writing the fields of an item in another order changes neither the
\* matrix the builder returns nor whether it raises.
C16_FieldOrderIrrelevant ==
    last.op = "build_reordered" =>
        /\ last.exc_reordered = last.exc
        /\ last.X_reordered = last.X

\* C16 witness: the first item of a two-item batch is reordered, so that the
\* columns of the frame appear in another order, and a matrix is returned
C16_Witness ==
    /\ last.op = "build_reordered"
    /\ last.exc = ""
    /\ Len(last.items) = 2
    /\ DictKeys(last.reordered[1]) # DictKeys(last.items[1])
    /\ UnionOfKeys(last.reordered) # UnionOfKeys(last.items)
    /\ \E j \in DOMAIN last.X[1] : last.X[1][j] # last.X[2][j]

-----------------------------------------------------------------------------
(* Properties of stable_features_hash (SpecHash).                          *)

\* the two items have the same fields with the same values
SameFields(item, other) ==
    /\ Range(DictKeys(item)) = Range(DictKeys(other))
    /\ \A key \in Range(DictKeys(item)) : DictGet(item, key) = DictGet(other, key)

\* the two requests have the same items, up to the order of the keys
SameContent(items, others) ==
    /\ Len(items) = Len(others)
    /\ \A i \in DOMAIN items : SameFields(items[i], others[i])

\* C17: two requests with the same content have the same hash, whatever the
\* order of the keys in their items; two requests that differ in the value of
\* a field have different hashes.
C17_HashStableAndSensitive ==
    last.op = "stable_features_hash" =>
        /\ SameContent(last.items, last.others) => last.hash = last.hash_others
        /\ ~SameContent(last.items, last.others) => last.hash # last.hash_others

\* C17 witness: the same items with the keys of one in another order, and the
\* same hash
C17_Witness ==
    /\ last.op = "stable_features_hash"
    /\ last.items # last.others
    /\ SameContent(last.items, last.others)
    /\ last.hash = last.hash_others

-----------------------------------------------------------------------------
(* Shape and layout of the matrix (SpecBuild).                             *)

\* C18, as stated: the matrix has one row per item and one column per name of
\* all_features, for every manifest.
C18_Original ==
    Returned =>
        /\ Len(last.X) = Len(last.items)
        /\ \A i \in DOMAIN last.X : Len(last.X[i]) = Len(last.feature_order.all_features)

\* C18, amended: the matrix has one row per item and one column per name of
\* numeric_features and of categorical_features; that is one column per name
\* of all_features when every name of all_features is in one of the two lists.
C18_MatrixShape ==
    Returned =>
        /\ Len(last.X) = Len(last.items)
        /\ \A i \in DOMAIN last.X :
              /\ Len(last.X[i]) = Len(last.feature_order.numeric_features)
                                    + Len(last.feature_order.categorical_features)
              /\ (\A j \in DOMAIN last.feature_order.all_features :
                      Contains(LastLayout, last.feature_order.all_features[j])) =>
                    Len(last.X[i]) = Len(last.feature_order.all_features)

\* C18 witness: a two-item batch under a manifest whose all_features has a
\* name in neither list: the matrix is narrower than all_features
C18_Witness ==
    /\ Returned
    /\ Len(last.X) = 2
    /\ \E j \in DOMAIN last.feature_order.all_features :
          ~Contains(LastLayout, last.feature_order.all_features[j])
    /\ Len(last.X[1]) < Len(last.feature_order.all_features)

\* the manifest that asks for the feature feat alone, in the list the
\* recorded manifest has it in
SingleManifest(feat) ==
    FeatureOrder(
        IF Contains(last.feature_order.numeric_features, feat) THEN << feat >> ELSE << >>,
        IF Contains(last.feature_order.categorical_features, feat) THEN << feat >> ELSE << >>,
        << feat >>)

\* the recorded scaler cut down to the column of feat
SingleScaler(feat) ==
    IF last.scaler = NoneVal \/ ~Contains(last.feature_order.numeric_features, feat)
        THEN NoneVal
    ELSE LET j == IndexOf(last.feature_order.numeric_features, feat)
         IN Scaler(<< last.scaler.mean[j] >>, << last.scaler.scale[j] >>, last.scaler.gen)

\* the value of the feature feat for each item of the recorded batch: what the
\* builder returns when feat is the only feature asked for; 0.0 when feat is in
\* neither list of the manifest
ValuesOf(feat) ==
    IF Contains(LastLayout, feat)
        THEN LET single == build_features_for_prediction(
                               last.items, last.encoders, SingleManifest(feat),
                               SingleScaler(feat))
             IN [i \in DOMAIN last.items |-> single.X[i][1]]
    ELSE [i \in DOMAIN last.items |-> Num(0)]

\* C19, as stated: column j of the matrix holds the value of all_features[j],
\* for every manifest.
C19_Original ==
    Returned =>
        \A j \in DOMAIN last.feature_order.all_features :
            \E values \in {ValuesOf(last.feature_order.all_features[j])} :
                \A i \in DOMAIN last.X :
                    /\ j \in DOMAIN last.X[i]
                    /\ last.X[i][j] = values[i]

\* C19, amended: column j of the matrix holds the value of the j-th name of
\* numeric_features followed by categorical_features.
C19_ColumnLayout ==
    Returned =>
        /\ \A i \in DOMAIN last.X : Len(last.X[i]) = Len(LastLayout)
        /\ \A j \in DOMAIN LastLayout :
              \E values \in {ValuesOf(LastLayout[j])} :
                  \A i \in DOMAIN last.X : last.X[i][j] = values[i]

\* C19 witness: a manifest that lists a numeric feature after the categorical
\* ones; the second column holds the year of birth, which all_features lists
\* last, and not the code of Genero, which all_features lists second
C19_Witness ==
    /\ Returned
    /\ last.scaler = NoneVal
    /\ last.feature_order.all_features[2] = "Genero"
    /\ LastLayout[2] = "FechaNacimiento_numeric"
    /\ \E i \in DOMAIN last.X :
          /\ last.X[i][2] = Num(RefYear)
          /\ last.X[i][3] = Num(1)
          /\ Supplies(last.items[i], "Genero")

-----------------------------------------------------------------------------
(* Training and serving compared (SpecTrain).                              *)

\* C20: for a record of the training dataset, each unscaled value the serving
\* builder computes is the value the training run computed for that record
\* and feature.
C20_ServingEqualsTraining ==
    last.op = "train_and_serve" =>
        /\ last.exc = ""
        /\ \A feat \in Range(last.feature_order.all_features) :
              /\ Contains(LastLayout, feat)
              /\ CellOf(1, feat) = last.trained[feat]

-----------------------------------------------------------------------------
(* The cache under concurrent calls (SpecThreads).                         *)

\* C21: whatever the interleaving of the calls, a key that some call has
\* stored is in the cache in every later state, with the bundle it was first
\* stored with: no call discards the map or replaces another call's entry.
C21_CacheSafeUnderConcurrency ==
    last.op = "threads" =>
        \A key \in DOMAIN last.stored :
            /\ has_cache
            /\ key \in DOMAIN cache
            /\ cache[key] = last.stored[key]

-----------------------------------------------------------------------------
(* Rows, batches and fields of the builder (SpecBuild).                    *)

\* C22: row i of the matrix of a batch is the row the builder returns for the
\* item i served alone, with the same encoders, manifest and scaler.
C22_BatchIndependence ==
    Returned =>
        \A i \in DOMAIN last.items :
            \E single \in {build_features_for_prediction(
                               << last.items[i] >>, last.encoders,
                               last.feature_order, last.scaler)} :
                /\ single.exc = ""
                /\ last.X[i] = single.X[1]

\* the numeric forms an item can give of its birth date
DerivedForms == {"edad", "FechaNacimiento_numeric"}

\* C23: when an item supplies the birth date and a derived form of it, the
\* unscaled matrix holds the derived value the item supplied.
C23_SuppliedDerivedFormWins ==
    (Returned /\ last.scaler = NoneVal) =>
        \A i \in DOMAIN last.items : \A form \in DerivedForms :
            ( /\ Supplies(last.items[i], "FechaNacimiento")
              /\ Supplies(last.items[i], form)
              /\ Contains(LastLayout, form) ) =>
                CellOf(i, form) = to_numeric(DictGet(last.items[i], form))

-----------------------------------------------------------------------------
(* Fields the manifest does not list, and deny-listed fields (SpecVariant). *)

\* C24: adding to an item a field that all_features does not list changes
\* neither the matrix nor whether the builder raises.
C24_UnlistedFieldIgnored ==
    ( /\ last.op = "build_variant"
      /\ last.added
      /\ ~Contains(last.feature_order.all_features, last.field) ) =>
        /\ last.exc_variant = last.exc
        /\ last.X_variant = last.X

\* C25: two batches that differ in the value of one deny-listed field, or in
\* having it, give the same matrix, also under a manifest that lists the field.
C25_DenyListedFieldNoInfluence ==
    (last.op = "build_variant" /\ last.field \in columns_to_drop) =>
        /\ last.exc_variant = last.exc
        /\ last.X_variant = last.X

\* C25 witness: the value of Final1AM1 is changed in an item of a two-item
\* batch under a manifest that lists Final1AM1, and a matrix is returned
C25_Witness ==
    /\ last.op = "build_variant"
    /\ last.field = "Final1AM1"
    /\ ~last.added
    /\ Contains(last.feature_order.all_features, "Final1AM1")
    /\ Len(last.items) = 2
    /\ last.exc = ""
    /\ DictGet(last.variant[last.index], "Final1AM1")
           # DictGet(last.items[last.index], "Final1AM1")
    /\ ~isna(DictGet(last.variant[last.index], "Final1AM1"))

-----------------------------------------------------------------------------
(* Defaults of missing values (SpecDates). *)

\* the year of the birth date of item, NaN when it has none or it is unparsable
ItemYear(item) ==
    IF DictHas(item, "FechaNacimiento") THEN year_of(DictGet(item, "FechaNacimiento"))
    ELSE NaNVal

\* some item of the recorded batch has the key field
ColumnSupplied(field) == \E j \in DOMAIN last.items : DictHas(last.items[j], field)

\* the retake slot feat of item takes the partial score of its pair
FilledByRetake(item, feat) ==
    \E pair \in RetakePairs : pair[2] = feat /\ Supplies(item, pair[1])

\* edad of item is derived from its birth date
FilledByAge(item, feat) ==
    /\ feat = "edad"
    /\ ~ColumnSupplied("edad")
    /\ ~isna(ItemYear(item))

\* the default of a manifest column in the recorded call
DefaultOf(feat) ==
    IF Contains(last.feature_order.numeric_features, feat) THEN Num(0) ELSE Num(-1)

\* the three parts of C26 for the manifest columns other than those of skip
MissingValueDefaults(skip) ==
    /\ \A i \in DOMAIN last.items :
         \A feat \in Range(last.feature_order.numeric_features) \ skip :
            ( /\ Missing(last.items[i], feat)
              /\ ~FilledByRetake(last.items[i], feat)
              /\ ~FilledByAge(last.items[i], feat) ) =>
                CellOf(i, feat) = Num(0)
    /\ \A feat \in Range(LastLayout) \ skip :
            ( /\ ~ColumnSupplied(feat)
              /\ \A i \in DOMAIN last.items : ~FilledByAge(last.items[i], feat) ) =>
                \A i \in DOMAIN last.items : CellOf(i, feat) = DefaultOf(feat)
    /\ \A i \in DOMAIN last.items :
            ( /\ Contains(LastLayout, "edad")
              /\ DictHas(last.items[i], "FechaNacimiento")
              /\ isna(ItemYear(last.items[i]))
              /\ ~Supplies(last.items[i], "edad") ) =>
                CellOf(i, "edad") = Num(0)

\* C26 as stated: in the unscaled matrix, a numeric manifest column of an item
\* that gives no number for it, and that neither the retake imputation nor the
\* age derivation fills, holds 0; a manifest column no item supplies holds 0
\* if numeric and -1 if categorical; an unparsable birth date with no supplied
\* edad gives edad = 0.
C26_Original ==
    (Returned /\ last.scaler = NoneVal) => MissingValueDefaults({})

\* the years of the birth dates of the recorded batch
LastYears == [j \in DOMAIN last.items |-> ItemYear(last.items[j])]

\* C26: the statement holds of every manifest column but FechaNacimiento_numeric.
\* That column holds 0 for an item that gives no number for it only when some
\* item has the key and no item has a birth date; when some item has a birth
\* date it holds the year of the item's date, or the median year of the batch
\* (the current year when no date parses) for an item without a parsable
\* date; when no item has either key it holds the current year.
C26_MissingValueDefaults ==
    (Returned /\ last.scaler = NoneVal) =>
        /\ MissingValueDefaults({"FechaNacimiento_numeric"})
        /\ Contains(LastLayout, "FechaNacimiento_numeric") =>
             \A i \in DOMAIN last.items :
                LET item == last.items[i]
                    cell == CellOf(i, "FechaNacimiento_numeric")
                IN  IF ColumnSupplied("FechaNacimiento")
                        THEN IF ~isna(ItemYear(item)) THEN cell = ItemYear(item)
                             ELSE IF \E j \in DOMAIN LastYears : ~isna(LastYears[j])
                                 THEN cell = Num(median_year(LastYears))
                             ELSE cell = Num(RefYear)
                    ELSE IF ColumnSupplied("FechaNacimiento_numeric")
                        THEN Missing(item, "FechaNacimiento_numeric") => cell = Num(0)
                    ELSE cell = Num(RefYear)

\* C26 witness: the item with the unparsable date "ayer" and no edad, alone
\* in its batch under the manifest that lists edad: edad and the partial score
\* it does not give are both 0
C26_Witness ==
    /\ Returned
    /\ last.scaler = NoneVal
    /\ Len(last.items) = 1
    /\ DictHas(last.items[1], "FechaNacimiento")
    /\ isna(ItemYear(last.items[1]))
    /\ Contains(LastLayout, "edad")
    /\ CellOf(1, "edad") = Num(0)
    /\ Missing(last.items[1], "Parcial1AM1")
    /\ CellOf(1, "Parcial1AM1") = Num(0)

-----------------------------------------------------------------------------
(* A prediction request and the cached bundle (SpecPredict). *)

\* the key of the bundle the endpoint uses
ServedKey == cache_key("grades", MODEL_VERSION)

\* the recorded request got a matrix from the builder
RequestBuilt == last.op = "predict_grades" /\ last.builder_called /\ last.X # NoMatrix

\* C27: a prediction request leaves every entry the cache held as it was
\* (scaler statistics, encoder vocabularies and manifest included); the entry
\* it stores on its first use is the bundle as loaded from the disk, also
\* after the builder has used it; and with no scaler in the bundle each
\* numeric cell whose item gives a number for it holds that number.
C27_RequestLeavesBundleUnchanged ==
    (last.op = "predict_grades") =>
        /\ \A k \in DOMAIN last.cache_before :
               k \in DOMAIN cache /\ cache[k] = last.cache_before[k]
        /\ (last.ensure_called /\ last.bundle # NoBundle /\ ~last.hit) =>
               /\ ServedKey \in DOMAIN cache
               /\ cache[ServedKey] =
                      ensure_models_loaded(disk, last.cache_before, nextOid - 1,
                                           "grades", MODEL_VERSION).bundle
        /\ (RequestBuilt /\ last.bundle.scaler = NoneVal) =>
               \A i \in DOMAIN last.items :
                  \A j \in DOMAIN last.bundle.feature_order.numeric_features :
                     LET feat == last.bundle.feature_order.numeric_features[j]
                     IN  ~Missing(last.items[i], feat) =>
                             last.X[i][j] = to_numeric(DictGet(last.items[i], feat))

\* C27 witness: a request served from the cache whose builder called the
\* scaler's transform on a batch of two items and that answered 200
C27_Witness ==
    /\ RequestBuilt
    /\ last.hit
    /\ last.status = 200
    /\ ServedKey \in DOMAIN last.cache_before
    /\ last.bundle.scaler # NoneVal
    /\ Len(last.bundle.feature_order.numeric_features) > 0
    /\ Len(last.items) = 2

-----------------------------------------------------------------------------
(* A manifest without features (SpecManifest). *)

\* the recorded request ran the builder on a manifest that lists neither a
\* numeric nor a categorical feature
BuiltOnEmptyManifest ==
    /\ last.op = "predict_grades"
    /\ last.builder_called
    /\ last.bundle.feature_order.numeric_features = << >>
    /\ last.bundle.feature_order.categorical_features = << >>

\* C28: on such a manifest the builder raises ValueError and returns no
\* matrix, the request is answered 400, and model.predict is not called.
C28_EmptyManifestIsClientError ==
    BuiltOnEmptyManifest =>
        /\ last.stage = "build"
        /\ last.exc = "ValueError"
        /\ last.X = NoMatrix
        /\ last.status = 400
        /\ ~last.model_called
        /\ last.preds = << >>

\* C28 witness: a batch of two items sent after the manifest of the deployed
\* version was replaced by one without features
C28_Witness ==
    /\ BuiltOnEmptyManifest
    /\ Len(last.items) = 2
    /\ last.bundle.model # NoneVal
    /\ last.status = 400

-----------------------------------------------------------------------------
(* Failed loads and the cache (SpecRetry). *)

\* the mandatory artifacts of name/v are on the disk and readable: a model
\* file, feature_order.json and a metadata file, none of them damaged
ArtifactsPresent(d, name, v) ==
    LET dir == {p \in Paths : p.name = name /\ p.version = v} IN
    /\ \E p \in dir : KindOf(p) = "model" /\ exists(d, p)
    /\ exists(d, Path(name, v, "feature_order.json"))
    /\ \E p \in dir : KindOf(p) = "meta" /\ exists(d, p)
    /\ \A p \in dir : KindOf(p) \in {"model", "feature_order", "meta"} => d[p] # Corrupt

\* C29: a call that raises leaves the cache as it was, with no entry for its
\* key; and a call for a key whose previous call raised, made when the
\* mandatory artifacts are present, reads the disk, returns a bundle and
\* stores it.
C29_FailedLoadLeavesCache ==
    (last.op = "retry" /\ last.call # NoCall) =>
        /\ (last.call.exc # "") =>
               /\ cache = last.call.cache_before
               /\ last.call.key \notin DOMAIN cache
               /\ last.call.bundle = NoBundle
        /\ ( /\ last.call.key \in last.call.failed_before
             /\ ArtifactsPresent(disk, last.call.name, last.call.version) ) =>
               /\ last.call.exc = ""
               /\ ~last.call.hit
               /\ last.call.probed # {}
               /\ last.call.key \in DOMAIN cache
               /\ cache[last.call.key] = last.call.bundle

\* C29 witness: a call for a key whose previous call raised returns a bundle
\* read from the disk, while the cache already holds another entry
C29_Witness ==
    /\ last.op = "retry"
    /\ last.call # NoCall
    /\ last.call.key \in last.call.failed_before
    /\ last.call.exc = ""
    /\ last.call.probed # {}
    /\ last.call.key \in DOMAIN cache

-----------------------------------------------------------------------------
(* The entries of the artifact cache (Spec). *)

\* a bundle with a model, a manifest and metadata
Complete(bundle) ==
    /\ bundle.model # NoneVal /\ bundle.model.k = "model"
    /\ bundle.feature_order # NoneVal /\ bundle.feature_order.k = "feature_order"
    /\ bundle.meta # NoneVal /\ bundle.meta.k = "meta"

\* C30: every entry of the cache is a complete bundle under the key of the
\* name and version whose directory it was read from; a call that returns
\* gives its caller a complete bundle, the one the cache holds under the key of
\* the call; and the bundle a miss stores holds the model, manifest and
\* metadata files of that directory.
C30_CacheEntriesComplete ==
    /\ \A k \in DOMAIN cache :
          /\ Complete(cache[k])
          /\ \E n \in Names, v \in Versions :
                k = n \o ":" \o v /\ cache[k].meta.version = v
    /\ (last.op = "ensure_models_loaded" /\ last.exc = "") =>
          /\ Complete(last.bundle)
          /\ last.key \in DOMAIN cache
          /\ cache[last.key] = last.bundle
          /\ ~last.hit =>
                LET v == version_or_default(last.version)
                    paths == get_model_paths(disk, last.name, v)
                IN  /\ last.bundle.model = disk[paths.model]
                    /\ last.bundle.feature_order = disk[Path(last.name, v, "feature_order.json")]
                    /\ last.bundle.meta \in {disk[Path(last.name, v, "meta.json")],
                                             disk[Path(last.name, v, "metadata.json")]}
    /\ (last.op = "ensure_models_loaded" /\ last.exc # "") => last.bundle = NoBundle

\* C30 witness: a miss returns and stores a bundle while the cache already
\* holds the bundle of the other version
C30_Witness ==
    /\ last.op = "ensure_models_loaded"
    /\ last.exc = ""
    /\ ~last.hit
    /\ last.key \in DOMAIN cache
    /\ \E k \in DOMAIN last.cache_before : k # last.key

====
